---- MODULE Spec2Model ----
(***************************************************************************)
(* nvproton: the Game Database (src/src/detection/database.rs), the         *)
(* profile resolver (src/src/profile/manager.rs) and the source detectors  *)
(* (src/src/detection/steam.rs, heroic.rs, lutris.rs, fingerprint.rs).     *)
(*                                                                         *)
(* Rust Strings that the code takes apart (identity keys, ids, queries)    *)
(* are sequences of one-character strings, so that format!, ends_with and  *)
(* split(':') are computed, not assumed.  Option::None is the value None.  *)
(***************************************************************************)
EXTENDS Integers, Sequences, FiniteSets, TLC

VARIABLES
    entries,    \* GameDatabase.entries: identity key -> GameRecord
    op,         \* name of the last GameDatabase operation that ran
    arg,        \* its argument
    ret,        \* its return value
    merges,     \* number of merge_detected calls so far
    seenAt,     \* history: (source, id) -> what its detections carried
    history,    \* what earlier calls did: the merge_detected calls, the last set_game_profile
    store,      \* profiles directory: name -> ProfileDocument (absent: no file)
    pc,         \* position of ProfileManager::resolve
    requested,  \* resolve's argument `name`
    chain,      \* resolve's local `chain`
    cursor,     \* resolve's local `cursor`
    outcome,    \* resolve's result
    world,      \* the configuration and the filesystem a detector reads
    ran,        \* the last detection call: what was called, with which flag
    found,      \* its return value
    disk,       \* games.yaml as persisted: the encoded database, or NoFile
    procs,      \* the processes that run a command on the persisted database
    order,      \* the order of an iteration: of the HashMap `entries`, of a directory walk
    cmd         \* the last `profile` command: its arguments and its result

dbvars == <<entries, op, arg, ret, merges, seenAt, history>>
pfvars == <<store, pc, requested, chain, cursor, outcome>>
dtvars == <<world, ran, found>>
shvars == <<disk, procs, order, cmd>>
vars == <<entries, op, arg, ret, merges, seenAt, history,
          store, pc, requested, chain, cursor, outcome,
          world, ran, found,
          disk, procs, order, cmd>>

None == "None"

\* Option of a structured value: Nothing, or Some(x)
Nothing == <<>>
Some(x) == <<x>>

-----------------------------------------------------------------------------
(* Bounds of the model *)

MaxGames == 2       \* longest `games` slice handed to merge_detected
MaxTime == 2        \* timestamps are drawn from 1..MaxTime
MaxMerges == 2      \* merge_detected calls per behaviour

-----------------------------------------------------------------------------
(* Strings *)

Max(S) == CHOOSE x \in S : \A y \in S : y <= x

\* str::ends_with
ends_with(s, suffix) ==
    /\ Len(suffix) <= Len(s)
    /\ SubSeq(s, Len(s) - Len(suffix) + 1, Len(s)) = suffix

\* position of the first ':' of s at or after `from`, 0 when there is none
FirstColon(s, from) ==
    LET hits == {i \in from..Len(s) : s[i] = ":"}
    IN IF hits = {} THEN 0 ELSE CHOOSE i \in hits : \A j \in hits : i <= j

\* key.split(':').nth(1).unwrap_or(key)
split_nth1_or_key(key) ==
    LET i == FirstColon(key, 1)
        j == FirstColon(key, i + 1)
    IN IF i = 0 THEN key
       ELSE IF j = 0 THEN SubSeq(key, i + 1, Len(key))
       ELSE SubSeq(key, i + 1, j - 1)

-----------------------------------------------------------------------------
(* Detection data *)

Steam == "Steam"
Heroic == "Heroic"
Lutris == "Lutris"
Unknown == "Unknown"
GameSource == {Steam, Heroic, Lutris, Unknown}

\* impl fmt::Display for GameSource
Display(source) ==
    CASE source = Steam -> <<"s", "t", "e", "a", "m">>
      [] source = Heroic -> <<"h", "e", "r", "o", "i", "c">>
      [] source = Lutris -> <<"l", "u", "t", "r", "i", "s">>
      [] source = Unknown -> <<"u", "n", "k", "n", "o", "w", "n">>

EXCLUDED_APPIDS ==
    { <<"2", "2", "8", "9", "8", "0">>,
      <<"1", "4", "9", "3", "7", "1", "0">>,
      <<"1", "6", "2", "8", "3", "5", "0">>,
      <<"1", "8", "8", "7", "7", "2", "0">>,
      <<"2", "1", "8", "0", "1", "0", "0">>,
      <<"2", "3", "4", "8", "5", "9", "0">>,
      <<"3", "6", "5", "8", "1", "1", "0">>,
      <<"1", "3", "9", "1", "1", "1", "0">>,
      <<"2", "8", "0", "5", "7", "3", "0">> }

is_excluded_appid(appid) == appid \in EXCLUDED_APPIDS

\* The detections the model feeds to merge_detected.  Ids: an ordinary id, an
\* excluded AppID, and an id that itself contains ':'.
PlainIds == { <<"7">> }
Ids == PlainIds \cup { <<"2", "2", "8", "9", "8", "0">>,
                       <<"2", "2", "8", "9", "8", "0", ":", "7">> }
SourcesIn == {Steam, Heroic}
Fingerprints == {"f1", "f2"}
EmptyMap == [k \in {} |-> None]

Detections(ids, fingerprints) ==
    [source : SourcesIn, id : ids, name : {"name"}, install_dir : {"dir"},
     executable : {None}, fingerprint : fingerprints, metadata : {EmptyMap}]

\* detections with and without a fingerprint (specification SpecMerge)
FingerprintedGames == Detections(PlainIds, Fingerprints \cup {None})
\* detections of every id by Steam and of the excluded AppID by another
\* source, none fingerprinted (specification Spec)
DetectedGames ==
    {g \in Detections(Ids, {None}) : g.source = Steam \/ is_excluded_appid(g.id)}

SeqsUpTo(S, n) == UNION {[1..m -> S] : m \in 0..n}

\* HashMap::extend / insert: the right-hand side wins on a shared key
Extend(m, more) ==
    [k \in DOMAIN m \cup DOMAIN more |-> IF k \in DOMAIN more THEN more[k] ELSE m[k]]

Insert(m, k, v) == [x \in DOMAIN m \cup {k} |-> IF x = k THEN v ELSE m[x]]

-----------------------------------------------------------------------------
(* GameDatabase *)

game_key_id_only(game) == game.id

\* fn game_key: format!("{}:{}", game.source, game.id)
game_key(game) == Display(game.source) \o <<":">> \o game.id

option_or_overwrite(a, b) == a

\* Option::or, as used for entry.fingerprint
option_or(a, b) == IF a # None THEN a ELSE b

new_record(game, timestamp) ==
    [source |-> game.source, name |-> game.name,
     install_dir |-> game.install_dir, executable |-> game.executable,
     fingerprint |-> game.fingerprint, last_seen |-> timestamp,
     metadata |-> game.metadata, profile |-> None]

merge_one_keep_first_seen(e, game, timestamp) ==
    LET key == game_key(game)
        entry == IF key \in DOMAIN e THEN e[key] ELSE new_record(game, timestamp)
    IN Insert(e, key,
              [entry EXCEPT !.install_dir = game.install_dir,
                            !.executable = game.executable,
                            !.fingerprint = option_or(game.fingerprint, entry.fingerprint),
                            !.metadata = Extend(entry.metadata, game.metadata)])

merge_one_keeps_executable(e, game, timestamp) ==
    LET key == game_key(game)
        entry == IF key \in DOMAIN e THEN e[key] ELSE new_record(game, timestamp)
    IN Insert(e, key,
              [entry EXCEPT !.install_dir = game.install_dir,
                            !.executable = option_or(game.executable, entry.executable),
                            !.fingerprint = option_or(game.fingerprint, entry.fingerprint),
                            !.last_seen = timestamp,
                            !.metadata = Extend(entry.metadata, game.metadata)])

merge_one_renames(e, game, timestamp) ==
    LET key == game_key(game)
        entry == IF key \in DOMAIN e THEN e[key] ELSE new_record(game, timestamp)
    IN Insert(e, key,
              [entry EXCEPT !.name = game.name,
                            !.install_dir = game.install_dir,
                            !.executable = game.executable,
                            !.fingerprint = option_or(game.fingerprint, entry.fingerprint),
                            !.last_seen = timestamp,
                            !.metadata = Extend(entry.metadata, game.metadata)])

\* one iteration of merge_detected's loop: entry().or_insert_with(..) and the
\* five assignments that follow it
merge_one(e, game, timestamp) ==
    LET key == game_key(game)
        entry == IF key \in DOMAIN e THEN e[key] ELSE new_record(game, timestamp)
    IN Insert(e, key,
              [entry EXCEPT !.install_dir = game.install_dir,
                            !.executable = game.executable,
                            !.fingerprint = option_or(game.fingerprint, entry.fingerprint),
                            !.last_seen = timestamp,
                            !.metadata = Extend(entry.metadata, game.metadata)])

RECURSIVE merge_detected(_, _, _)
merge_detected(e, games, timestamp) ==
    IF games = <<>> THEN e
    ELSE merge_detected(merge_one(e, Head(games), timestamp), Tail(games), timestamp)

record_to_detected(id, record) ==
    [source |-> record.source, id |-> id, name |-> record.name,
     install_dir |-> record.install_dir, executable |-> record.executable,
     fingerprint |-> record.fingerprint, metadata |-> record.metadata]

key_matches_exact_only(key, game_id) == key = game_id

\* the test of get, set_game_profile and get_game_profile
key_matches(key, game_id) ==
    ends_with(key, <<":">> \o game_id) \/ key = game_id

\* GameDatabase::get: the HashMap is scanned in an unspecified order and the
\* first match is returned, so every match is a possible result
get(e, game_id) ==
    LET hits == {key \in DOMAIN e : key_matches(key, game_id)}
    IN IF hits = {} THEN {Nothing}
       ELSE {Some(record_to_detected(game_id, e[key])) : key \in hits}

\* GameDatabase::games: filter_map yields at most one game per entry; the
\* result maps each entry that is yielded to the game yielded for it
games(e) ==
    LET shown == {key \in DOMAIN e :
                    ~(e[key].source = Steam /\ is_excluded_appid(split_nth1_or_key(key)))}
    IN [key \in shown |-> record_to_detected(split_nth1_or_key(key), e[key])]

retain_keeps_every_record(key, record) == TRUE

\* the closure given to retain
retain_keeps(key, record) ==
    IF record.source = Steam THEN ~is_excluded_appid(split_nth1_or_key(key)) ELSE TRUE

retained(e) ==
    LET kept == {key \in DOMAIN e : retain_keeps(key, e[key])}
    IN [key \in kept |-> e[key]]

removed_count_after_only(e) == Cardinality(DOMAIN retained(e))

\* the value cleanup_excluded returns: before - self.entries.len()
removed_count(e) == Cardinality(DOMAIN e) - Cardinality(DOMAIN retained(e))

-----------------------------------------------------------------------------
(* Operations on the Game Database *)

Pair(game) == [source |-> game.source, id |-> game.id]

\* what the detections of pair p carried, the slice gs included: the latest
\* timestamp, the fingerprint of the latest detection, and the fingerprint of
\* the latest detection that had one
NoteSeen(seen, gs, timestamp) ==
    LET now == {Pair(gs[i]) : i \in DOMAIN gs}
        at(p) == {i \in DOMAIN gs : Pair(gs[i]) = p}
        with(p) == {i \in at(p) : gs[i].fingerprint # None}
    IN [p \in DOMAIN seen \cup now |->
          IF p \in now
          THEN [latest |-> IF p \in DOMAIN seen THEN Max({seen[p].latest, timestamp})
                           ELSE timestamp,
                last |-> gs[Max(at(p))].fingerprint,
                carried |-> IF with(p) # {} THEN gs[Max(with(p))].fingerprint
                            ELSE IF p \in DOMAIN seen THEN seen[p].carried
                            ELSE None]
          ELSE seen[p]]

\* the calls so far: the timestamp of the latest, whether every call came with
\* a larger timestamp than the one before, whether a slice held a pair twice,
\* whether a call held a pair that an earlier call had merged
NoteCall(h, seen, gs, timestamp) ==
    [stamp |-> timestamp,
     increasing |-> h.increasing /\ h.stamp < timestamp,
     repeated |-> h.repeated \/ \E i, j \in DOMAIN gs : i < j /\ Pair(gs[i]) = Pair(gs[j]),
     again |-> h.again \/ \E i \in DOMAIN gs : Pair(gs[i]) \in DOMAIN seen]

MergeDetected(gs, timestamp) ==
    /\ merges < MaxMerges
    /\ entries' = merge_detected(entries, gs, timestamp)
    /\ op' = "merge_detected"
    /\ arg' = None
    /\ ret' = None
    /\ merges' = merges + 1
    /\ seenAt' = NoteSeen(seenAt, gs, timestamp)
    /\ history' = NoteCall(history, seenAt, gs, timestamp)
    /\ UNCHANGED pfvars
    /\ UNCHANGED dtvars
    /\ UNCHANGED shvars

Get(game_id) ==
    /\ \E r \in get(entries, game_id) : ret' = r
    /\ op' = "get"
    /\ arg' = game_id
    /\ UNCHANGED <<entries, merges, seenAt, history>>
    /\ UNCHANGED pfvars
    /\ UNCHANGED dtvars
    /\ UNCHANGED shvars

Games ==
    /\ ret' = games(entries)
    /\ op' = "games"
    /\ arg' = None
    /\ UNCHANGED <<entries, merges, seenAt, history>>
    /\ UNCHANGED pfvars
    /\ UNCHANGED dtvars
    /\ UNCHANGED shvars

CleanupExcluded ==
    /\ entries' = retained(entries)
    /\ ret' = removed_count(entries)
    /\ op' = "cleanup_excluded"
    /\ arg' = None
    /\ UNCHANGED <<merges, seenAt, history>>
    /\ UNCHANGED pfvars
    /\ UNCHANGED dtvars
    /\ UNCHANGED shvars

Queries == Ids \cup {game_key(g) : g \in DetectedGames}

DbInit ==
    /\ entries = EmptyMap
    /\ op = "new"
    /\ arg = None
    /\ ret = None
    /\ merges = 0
    /\ seenAt = EmptyMap
    /\ history = [stamp |-> 0, increasing |-> TRUE, repeated |-> FALSE, again |-> FALSE]

PfIdle ==
    /\ store = EmptyMap
    /\ pc = "idle"
    /\ requested = None
    /\ chain = <<>>
    /\ cursor = None
    /\ outcome = None

DtIdle ==
    /\ world = None
    /\ ran = None
    /\ found = None

\* the state of a games.yaml that does not exist
NoFile == [exists |-> FALSE]

ShIdle ==
    /\ disk = NoFile
    /\ procs = None
    /\ order = None
    /\ cmd = None

Init == DbInit /\ PfIdle /\ DtIdle /\ ShIdle

\* the Game Database: merge, look up, list, clean up.  The callers pass
\* SystemTime::now() as the timestamp; here it advances with every merge.
Next ==
    \/ \E gs \in SeqsUpTo(DetectedGames, MaxGames) : MergeDetected(gs, merges + 1)
    \/ \E game_id \in Queries : Get(game_id)
    \/ Games
    \/ CleanupExcluded

Spec == Init /\ [][Next]_vars

\* merge_detected alone, fed detections with and without fingerprints
NextMerge ==
    \E gs \in SeqsUpTo(FingerprintedGames, MaxGames), timestamp \in 1..MaxTime :
        MergeDetected(gs, timestamp)

SpecMerge == Init /\ [][NextMerge]_vars

-----------------------------------------------------------------------------
(* Profiles: serde_yaml values *)

\* serde_yaml::Value: a scalar, or a Mapping (a function from keys to Values)
Scalar(v) == [scalar |-> v]
Mapping(m) == [mapping |-> m]
is_mapping(value) == "mapping" \in DOMAIN value

\* Mapping::new()
EmptyMapping == [k \in {} |-> Scalar(0)]

merge_mapping_replace(target, source) ==
    [key \in DOMAIN target \cup DOMAIN source |->
        IF key \in DOMAIN source THEN source[key] ELSE target[key]]

\* fn merge_mapping: every key of source is merged into target; a Mapping is
\* merged into the Mapping already there (or into a new one), and replaces
\* anything else; any other value is inserted
RECURSIVE merge_mapping(_, _)
merge_mapping(target, source) ==
    [key \in DOMAIN target \cup DOMAIN source |->
        IF key \notin DOMAIN source THEN target[key]
        ELSE IF is_mapping(source[key])
        THEN LET entry == IF key \in DOMAIN target THEN target[key]
                          ELSE Mapping(EmptyMapping)
             IN IF is_mapping(entry)
                THEN Mapping(merge_mapping(entry.mapping, source[key].mapping))
                ELSE source[key]
        ELSE source[key]]

RECURSIVE fold_descendants_first(_, _)
fold_descendants_first(merged, documents) ==
    IF documents = <<>> THEN merged
    ELSE fold_descendants_first(merge_mapping(merged, Head(documents)[2].settings),
                                Tail(documents))

\* for (_, document) in chain.iter().rev() { merge_mapping(&mut merged, ..) }
RECURSIVE fold_rev(_, _)
fold_rev(merged, documents) ==
    IF documents = <<>> THEN merged
    ELSE fold_rev(merge_mapping(merged, documents[Len(documents)][2].settings),
                  SubSeq(documents, 1, Len(documents) - 1))

visited_last_only(documents, current_name) ==
    documents # <<>> /\ documents[Len(documents)][1] = current_name

\* chain.iter().any(|(existing, _)| existing == &current_name)
visited(documents, current_name) ==
    \E i \in DOMAIN documents : documents[i][1] = current_name

-----------------------------------------------------------------------------
(* Profiles: the stored documents *)

ProfileNames == {"A", "B", "C"}

\* the settings the stored documents are drawn from
SettingsPool ==
    { EmptyMapping,
      [k \in {"x", "y"} |->
          IF k = "x" THEN Scalar(1) ELSE Mapping([j \in {"a"} |-> Scalar(1)])],
      [k \in {"y"} |-> Mapping([j \in {"b"} |-> Scalar(2)])],
      [k \in {"x"} |-> Scalar(2)],
      [k \in {"y"} |-> Scalar(2)],
      [k \in {"y"} |-> Mapping([j \in {"a"} |-> Scalar(2)])],
      [k \in {"x"} |-> Mapping([j \in {"a"} |-> Scalar(1)])],
      [k \in {"y"} |-> Mapping(EmptyMapping)] }

\* ProfileDocument, stored under its name
Document(name, extends, settings) ==
    [name |-> name, extends |-> extends, settings |-> settings]

CycleDetected == "CycleDetected"
LoadError == "LoadError"
Failure(error) == [ok |-> FALSE, error |-> error]
\* ResolvedProfile
Resolved(name, merged) == [ok |-> TRUE, name |-> name, settings |-> Mapping(merged)]

-----------------------------------------------------------------------------
(* ProfileManager::resolve, one loop iteration at a time *)

\* let mut chain = Vec::new(); let mut cursor = Some(name.to_string());
ResolveBegin(name) ==
    /\ pc \in {"idle", "done"}
    /\ pc' = "walk"
    /\ requested' = name
    /\ chain' = <<>>
    /\ cursor' = name
    /\ outcome' = None
    /\ UNCHANGED store
    /\ UNCHANGED dbvars
    /\ UNCHANGED dtvars
    /\ UNCHANGED shvars

\* the name was walked before: bail!("profile inheritance loop detected")
ResolveLoop ==
    /\ pc = "walk"
    /\ cursor # None
    /\ visited(chain, cursor)
    /\ pc' = "done"
    /\ outcome' = Failure(CycleDetected)
    /\ UNCHANGED <<store, requested, chain, cursor>>
    /\ UNCHANGED dbvars
    /\ UNCHANGED dtvars
    /\ UNCHANGED shvars

\* ProfileManager::load succeeds: the file is there and parses as a
\* ProfileDocument
loadable(files, name) ==
    name \in DOMAIN files /\ "name" \in DOMAIN files[name]

ResolveLoadFails_merges_the_rest ==
    /\ pc = "walk"
    /\ cursor # None
    /\ ~visited(chain, cursor)
    /\ ~loadable(store, cursor)
    /\ pc' = "done"
    /\ outcome' = Resolved(requested, fold_rev(EmptyMapping, chain))
    /\ UNCHANGED <<store, requested, chain, cursor>>
    /\ UNCHANGED dbvars
    /\ UNCHANGED dtvars
    /\ UNCHANGED shvars

\* self.load(&current_name)? fails: there is no document of that name, or
\* the file does not parse
ResolveLoadFails ==
    /\ pc = "walk"
    /\ cursor # None
    /\ ~visited(chain, cursor)
    /\ ~loadable(store, cursor)
    /\ pc' = "done"
    /\ outcome' = Failure(LoadError)
    /\ UNCHANGED <<store, requested, chain, cursor>>
    /\ UNCHANGED dbvars
    /\ UNCHANGED dtvars
    /\ UNCHANGED shvars

\* the document is loaded, pushed on the chain, and the walk goes to its parent
ResolveVisit ==
    /\ pc = "walk"
    /\ cursor # None
    /\ ~visited(chain, cursor)
    /\ loadable(store, cursor)
    /\ chain' = Append(chain, <<cursor, store[cursor]>>)
    /\ cursor' = store[cursor].extends
    /\ UNCHANGED <<store, pc, requested, outcome>>
    /\ UNCHANGED dbvars
    /\ UNCHANGED dtvars
    /\ UNCHANGED shvars

\* the walk has passed the root: the chain is folded, ancestors first
ResolveMerge ==
    /\ pc = "walk"
    /\ cursor = None
    /\ pc' = "done"
    /\ outcome' = Resolved(requested, fold_rev(EmptyMapping, chain))
    /\ UNCHANGED <<store, requested, chain, cursor>>
    /\ UNCHANGED dbvars
    /\ UNCHANGED dtvars
    /\ UNCHANGED shvars

InitProfile ==
    /\ DbInit
    /\ DtIdle
    /\ ShIdle
    /\ \E S \in SUBSET ProfileNames :
          \E f \in [S -> [extends : ProfileNames \cup {None}, settings : SettingsPool]] :
              store = [n \in S |-> Document(n, f[n].extends, f[n].settings)]
    /\ pc = "idle"
    /\ requested = None
    /\ chain = <<>>
    /\ cursor = None
    /\ outcome = None

NextProfile ==
    \/ \E name \in ProfileNames : ResolveBegin(name)
    \/ ResolveLoop
    \/ ResolveLoadFails
    \/ ResolveVisit
    \/ ResolveMerge

SpecProfile == InitProfile /\ [][NextProfile]_vars

\* resolve on a directory in which a file may hold something that is not a
\* ProfileDocument
NotADocument == [syntax_error |-> TRUE]
LoadedSettings == {EmptyMapping, [k \in {"x"} |-> Scalar(1)]}
InitLoad ==
    /\ DbInit
    /\ DtIdle
    /\ ShIdle
    /\ \E S \in SUBSET ProfileNames :
          store \in [S -> {NotADocument}
                           \cup [name : ProfileNames, extends : ProfileNames \cup {None},
                                 settings : LoadedSettings]]
    /\ \A n \in DOMAIN store : loadable(store, n) => store[n].name = n
    /\ pc = "idle"
    /\ requested = None
    /\ chain = <<>>
    /\ cursor = None
    /\ outcome = None

SpecLoad == InitLoad /\ [][NextProfile]_vars

-----------------------------------------------------------------------------
(* Characters, file names and paths *)

\* the characters of the model's file names, in code-point order
Ascii ==
    <<" ", "-", ".", "/", "0", "1", "2", "3", "4", "5", "6", "7", "8", "9",
      ":", "A", "B", "C", "D", "E", "F", "G", "H", "I", "J", "K", "L", "M",
      "N", "O", "P", "Q", "R", "S", "T", "U", "V", "W", "X", "Y", "Z", "[", "_",
      "a", "b", "c", "d", "e", "f", "g", "h", "i", "j", "k", "l", "m", "n",
      "o", "p", "q", "r", "s", "t", "u", "v", "w", "x", "y", "z">>
Code(c) == CHOOSE i \in DOMAIN Ascii : Ascii[i] = c

\* char::to_lowercase on these characters
Lowercase ==
    [A |-> "a", B |-> "b", C |-> "c", D |-> "d", E |-> "e", F |-> "f", G |-> "g",
     H |-> "h", I |-> "i", J |-> "j", K |-> "k", L |-> "l", M |-> "m", N |-> "n",
     O |-> "o", P |-> "p", Q |-> "q", R |-> "r", S |-> "s", T |-> "t", U |-> "u",
     V |-> "v", W |-> "w", X |-> "x", Y |-> "y", Z |-> "z"]
char_lower(c) == IF c \in DOMAIN Lowercase THEN Lowercase[c] ELSE c

\* str::to_lowercase and str::to_ascii_lowercase (the same on ASCII)
RECURSIVE to_lowercase(_)
to_lowercase(s) ==
    IF s = <<>> THEN <<>> ELSE <<char_lower(Head(s))>> \o to_lowercase(Tail(s))
to_ascii_lowercase(s) == to_lowercase(s)

\* str::contains, str::starts_with, str::replace(" ", "")
contains(s, pattern) ==
    \E i \in 1..(Len(s) - Len(pattern) + 1) : SubSeq(s, i, i + Len(pattern) - 1) = pattern
starts_with(s, prefix) ==
    /\ Len(prefix) <= Len(s)
    /\ SubSeq(s, 1, Len(prefix)) = prefix
replace_spaces(s) == SelectSeq(s, LAMBDA c : c # " ")

\* Ord for str: byte-wise, a proper prefix first
RECURSIVE str_lt(_, _)
str_lt(a, b) ==
    IF a = <<>> THEN b # <<>>
    ELSE IF b = <<>> THEN FALSE
    ELSE IF a[1] = b[1] THEN str_lt(Tail(a), Tail(b))
    ELSE Code(a[1]) < Code(b[1])

\* A path is the sequence of its components, each a file name; an absolute
\* path starts with the root component.
Slash == <<"/">>
is_absolute(path) == path # <<>> /\ path[1] = Slash

\* Ord for Path: component-wise
RECURSIVE path_lt(_, _)
path_lt(p, q) ==
    IF p = <<>> THEN q # <<>>
    ELSE IF q = <<>> THEN FALSE
    ELSE IF p[1] = q[1] THEN path_lt(Tail(p), Tail(q))
    ELSE str_lt(p[1], q[1])

\* the paths of S in ascending order
RECURSIVE sorted_paths(_)
sorted_paths(S) ==
    IF S = {} THEN <<>>
    ELSE LET least == CHOOSE p \in S : \A q \in S : q = p \/ path_lt(p, q)
         IN <<least>> \o sorted_paths(S \ {least})

Range(s) == {s[i] : i \in DOMAIN s}

\* Path::join and PathBuf::push: an absolute right-hand side replaces the base
join(base, rel) == IF is_absolute(rel) THEN rel ELSE base \o rel

\* Path::file_name, Path::parent, Path::strip_prefix(..).is_ok()
file_name(path) == path[Len(path)]
parent(path) == SubSeq(path, 1, Len(path) - 1)
has_prefix(path, base) ==
    /\ Len(base) <= Len(path)
    /\ SubSeq(path, 1, Len(base)) = base

\* position of the last '.' of a file name, 0 when there is none
LastDot(name) ==
    LET dots == {i \in DOMAIN name : name[i] = "."}
    IN IF dots = {} THEN 0 ELSE Max(dots)

\* Path::extension and Path::file_stem of a file name: a name without '.',
\* or whose only '.' is its first character, has no extension
extension(name) ==
    IF LastDot(name) <= 1 THEN None ELSE SubSeq(name, LastDot(name) + 1, Len(name))
file_stem(name) ==
    IF LastDot(name) <= 1 THEN name ELSE SubSeq(name, 1, LastDot(name) - 1)

\* Result
Ok(value) == [ok |-> value]
Err(error) == [err |-> error]
is_ok(result) == "ok" \in DOMAIN result

-----------------------------------------------------------------------------
(* The filesystem: path -> directory or file *)

Dir == [kind |-> "dir"]
\* an executable: its length in bytes, its bytes, and whether it can be opened
Exe(len, bytes, readable) ==
    [kind |-> "file", len |-> len, bytes |-> bytes, readable |-> readable]
\* a text file and what its readers capture from it
Text(content) == [kind |-> "file", readable |-> TRUE, content |-> content]
\* a file that cannot be read (permissions, or bytes that are not UTF-8)
Unreadable == [kind |-> "file", readable |-> FALSE]

\* Path::exists
exists(fs, path) == path \in DOMAIN fs
is_file(fs, path) == exists(fs, path) /\ fs[path].kind = "file"

\* fs::read_to_string
read_to_string(fs, path) ==
    IF is_file(fs, path) /\ fs[path].readable
    THEN Ok(fs[path].content)
    ELSE Err("read")

\* SHA-256 of a file's bytes, in hex
Sha256Hex(bytes) == IF bytes = "b1" THEN "f1" ELSE "f2"

\* fingerprint::fingerprint_file
fingerprint_file(fs, path) ==
    IF is_file(fs, path) /\ fs[path].readable
    THEN Ok(Sha256Hex(fs[path].bytes))
    ELSE Err("fingerprint")

fingerprint_value_unwrapped(fs, executable, include_fingerprint) ==
    IF include_fingerprint /\ executable # None
    THEN (IF is_ok(fingerprint_file(fs, executable))
          THEN fingerprint_file(fs, executable).ok
          ELSE fingerprint_file(fs, executable).err)
    ELSE None

\* .and_then(|exe| fingerprint::fingerprint_file(exe).ok()) under
\* `if include_fingerprint`
fingerprint_value(fs, executable, include_fingerprint) ==
    IF include_fingerprint /\ executable # None /\ is_ok(fingerprint_file(fs, executable))
    THEN fingerprint_file(fs, executable).ok
    ELSE None

-----------------------------------------------------------------------------
(* The executable resolver (src/src/detection/steam.rs) *)

SKIP_PATTERNS ==
    << <<"u", "n", "i", "n", "s">>,
       <<"u", "n", "i", "n", "s", "t">>,
       <<"s", "e", "t", "u", "p">>,
       <<"i", "n", "s", "t", "a", "l", "l">>,
       <<"u", "p", "d", "a", "t", "e">>,
       <<"p", "a", "t", "c", "h">>,
       <<"c", "r", "a", "s", "h">>,
       <<"r", "e", "p", "o", "r", "t", "e", "r">>,
       <<"h", "e", "l", "p", "e", "r">>,
       <<"s", "e", "r", "v", "i", "c", "e">>,
       <<"l", "a", "u", "n", "c", "h", "e", "r">>,
       <<"e", "a", "s", "y", "a", "n", "t", "i", "c", "h", "e", "a", "t">>,
       <<"b", "a", "t", "t", "l", "e", "y", "e">>,
       <<"d", "x", "s", "e", "t", "u", "p">>,
       <<"v", "c", "r", "e", "d", "i", "s", "t">>,
       <<"d", "o", "t", "n", "e", "t">>,
       <<"d", "i", "r", "e", "c", "t", "x">>,
       <<"p", "h", "y", "s", "x">>,
       <<"u", "e", "4", "p", "r", "e", "r", "e", "q">>,
       <<"r", "e", "d", "i", "s", "t">>,
       <<"c", "e", "f">>,
       <<"s", "u", "b", "p", "r", "o", "c", "e", "s", "s">>,
       <<"b", "r", "o", "w", "s", "e", "r">>,
       <<"w", "e", "b", "h", "e", "l", "p", "e", "r">>,
       <<"u", "p", "c">>,
       <<"u", "p", "l", "a", "y">>,
       <<"o", "r", "i", "g", "i", "n">>,
       <<"e", "p", "i", "c">> >>

is_launcher_or_tool_exact(filename) ==
    \E i \in DOMAIN SKIP_PATTERNS : file_stem(filename) = SKIP_PATTERNS[i]

\* fn is_launcher_or_tool
is_launcher_or_tool(filename) ==
    \E i \in DOMAIN SKIP_PATTERNS : contains(filename, SKIP_PATTERNS[i])

\* WalkDir::new(install_dir).max_depth(max_depth): the regular files at most
\* max_depth levels below install_dir
max_depth == 4
depth_below(path, install_dir) == Len(path) - Len(install_dir)
walked(fs, install_dir) ==
    {path \in DOMAIN fs :
        /\ has_prefix(path, install_dir)
        /\ depth_below(path, install_dir) <= max_depth
        /\ fs[path].kind = "file"}

\* path.extension().and_then(|s| s.to_str()).unwrap_or("").to_ascii_lowercase()
ext_of(path) ==
    IF extension(file_name(path)) = None
    THEN <<>>
    ELSE to_ascii_lowercase(extension(file_name(path)))

\* the loop of locate_primary_executable: the .exe files that are not
\* launchers or tools
exe_candidates(fs, install_dir) ==
    {path \in walked(fs, install_dir) :
        /\ ext_of(path) = <<"e", "x", "e">>
        /\ ~is_launcher_or_tool(to_lowercase(file_name(path)))}

score_executable_unnamed(fs, path, install_dir) ==
    LET filename == to_lowercase(file_name(path))
        dirname == to_lowercase(file_name(install_dir))
        exe_stem == to_lowercase(file_stem(file_name(path)))
        depth == depth_below(path, install_dir)
        parent_name == file_name(parent(path))
        len == fs[path].len
    IN    (IF depth <= 1 THEN 30
           ELSE IF depth = 2 /\ parent_name \in {<<"b", "i", "n">>, <<"B", "i", "n", "a", "r", "i", "e", "s">>, <<"x", "6", "4">>}
           THEN 25 ELSE 0)
        + (IF \/ ends_with(filename, <<"-", "w", "i", "n", "6", "4", "-", "s", "h", "i", "p", "p", "i", "n", "g", ".", "e", "x", "e">>)
              \/ ends_with(filename, <<"_", "w", "i", "n", "6", "4", ".", "e", "x", "e">>)
           THEN 20 ELSE 0)
        + (IF contains(filename, <<"g", "a", "m", "e">>) \/ contains(filename, <<"c", "l", "i", "e", "n", "t">>)
           THEN 10 ELSE 0)
        - (IF contains(filename, <<"s", "e", "r", "v", "e", "r">>) /\ ~contains(filename, <<"d", "e", "d", "i", "c", "a", "t", "e", "d">>)
           THEN 10 ELSE 0)
        + (IF len < 1000000 THEN -20 ELSE IF len > 50000000 THEN 15 ELSE 0)

\* fn score_executable
score_executable(fs, path, install_dir) ==
    LET filename == to_lowercase(file_name(path))
        dirname == to_lowercase(file_name(install_dir))
        exe_stem == to_lowercase(file_stem(file_name(path)))
        depth == depth_below(path, install_dir)
        parent_name == file_name(parent(path))
        len == fs[path].len
    IN    (IF contains(dirname, exe_stem) \/ contains(exe_stem, replace_spaces(dirname))
           THEN 50 ELSE 0)
        + (IF depth <= 1 THEN 30
           ELSE IF depth = 2 /\ parent_name \in {<<"b", "i", "n">>, <<"B", "i", "n", "a", "r", "i", "e", "s">>, <<"x", "6", "4">>}
           THEN 25 ELSE 0)
        + (IF \/ ends_with(filename, <<"-", "w", "i", "n", "6", "4", "-", "s", "h", "i", "p", "p", "i", "n", "g", ".", "e", "x", "e">>)
              \/ ends_with(filename, <<"_", "w", "i", "n", "6", "4", ".", "e", "x", "e">>)
           THEN 20 ELSE 0)
        + (IF contains(filename, <<"g", "a", "m", "e">>) \/ contains(filename, <<"c", "l", "i", "e", "n", "t">>)
           THEN 10 ELSE 0)
        - (IF contains(filename, <<"s", "e", "r", "v", "e", "r">>) /\ ~contains(filename, <<"d", "e", "d", "i", "c", "a", "t", "e", "d">>)
           THEN 10 ELSE 0)
        + (IF len < 1000000 THEN -20 ELSE IF len > 50000000 THEN 15 ELSE 0)

\* fn locate_primary_executable: the candidate that the stable sort by
\* descending score puts first.  WalkDir yields directory entries in the
\* order of the filesystem, so among the candidates of the highest score
\* any one can come first: the set of the possible results.
locate_primary_executable(fs, install_dir) ==
    LET candidates == IF exists(fs, install_dir) THEN exe_candidates(fs, install_dir) ELSE {}
        score == [path \in candidates |-> score_executable(fs, path, install_dir)]
    IN IF candidates = {} THEN {None}
       ELSE {path \in candidates : \A other \in candidates : score[other] <= score[path]}

-----------------------------------------------------------------------------
(* glob (the glob crate, as the detectors call it) *)

\* PathBuf::to_string_lossy: the components joined by '/'
RECURSIVE to_string_lossy(_)
to_string_lossy(path) ==
    IF path = <<>> THEN <<>>
    ELSE IF Len(path) = 1 THEN path[1]
    ELSE IF path[1] = Slash THEN Slash \o to_string_lossy(Tail(path))
    ELSE path[1] \o Slash \o to_string_lossy(Tail(path))

\* position of the first ']' of s at or after `from`, 0 when there is none
FirstClose(s, from) ==
    LET hits == {i \in from..Len(s) : s[i] = "]"}
    IN IF hits = {} THEN 0 ELSE CHOOSE i \in hits : \A j \in hits : i <= j

\* Pattern::new fails on a '[' that no ']' closes (the first character of
\* the range is never the closing one); the scan goes on after the range
RECURSIVE pattern_ok(_, _)
pattern_ok(s, i) ==
    IF i > Len(s) THEN TRUE
    ELSE IF s[i] # "[" THEN pattern_ok(s, i + 1)
    ELSE LET from == IF i < Len(s) /\ s[i + 1] = "!" THEN i + 3 ELSE i + 2
         IN /\ FirstClose(s, from) # 0
            /\ pattern_ok(s, FirstClose(s, from) + 1)

\* a directory whose entries cannot be listed
Locked == [kind |-> "dir", listable |-> FALSE]
listable(fs, dir) == fs[dir].kind = "dir" /\ ("listable" \notin DOMAIN fs[dir])
children(fs, dir) == {path \in DOMAIN fs : Len(path) = Len(dir) + 1 /\ has_prefix(path, dir)}
ok_entries(paths) == [i \in DOMAIN sorted_paths(paths) |-> Ok(sorted_paths(paths)[i])]

\* glob(<dir>/<prefix>*<suffix>): the entries of dir whose name matches, in
\* alphabetical order; one error entry when dir cannot be listed; nothing
\* when dir is no directory.  No name of the model holds a closed range or
\* a wildcard, so the leading components match literally.
glob_in(fs, dir, prefix, suffix) ==
    IF ~pattern_ok(to_string_lossy(dir), 1) THEN Err("pattern")
    ELSE IF ~exists(fs, dir) \/ fs[dir].kind # "dir" THEN Ok(<<>>)
    ELSE IF ~listable(fs, dir) THEN Ok(<<Err("glob")>>)
    ELSE Ok(ok_entries({path \in children(fs, dir) :
                /\ Len(file_name(path)) >= Len(prefix) + Len(suffix)
                /\ starts_with(file_name(path), prefix)
                /\ ends_with(file_name(path), suffix)}))

\* glob(<dir>/*/<name>): the files called name one directory below dir
glob_below(fs, dir, name) ==
    IF ~pattern_ok(to_string_lossy(dir), 1) THEN Err("pattern")
    ELSE IF ~exists(fs, dir) \/ fs[dir].kind # "dir" THEN Ok(<<>>)
    ELSE IF ~listable(fs, dir) THEN Ok(<<Err("glob")>>)
    ELSE Ok(ok_entries({path \o <<name>> : path \in {c \in children(fs, dir) :
                exists(fs, c \o <<name>>)}}))

-----------------------------------------------------------------------------
(* The Steam detector (src/src/detection/steam.rs) *)

Steamapps == <<"s", "t", "e", "a", "m", "a", "p", "p", "s">>
Common == <<"c", "o", "m", "m", "o", "n">>
LibraryFoldersVdf == <<"l", "i", "b", "r", "a", "r", "y", "f", "o", "l", "d", "e", "r", "s", ".", "v", "d", "f">>
ManifestPrefix == <<"a", "p", "p", "m", "a", "n", "i", "f", "e", "s", "t", "_">>
ManifestSuffix == <<".", "a", "c", "f">>

\* fn read_library_folders.  The content of libraryfolders.vdf is the
\* sequence of the paths its "path" lines capture.
read_library_folders(fs, steam_root) ==
    LET library_file == steam_root \o <<Steamapps, LibraryFoldersVdf>>
        content == read_to_string(fs, library_file)
    IN IF ~exists(fs, library_file) THEN Ok(<<steam_root>>)
       ELSE IF ~is_ok(content) THEN content
       ELSE Ok(sorted_paths({steam_root}
                   \cup {p \in Range(content.ok) : exists(fs, p)}))

\* the value the last capture of `key` carries, None when there is none
last_value(captures, key) ==
    LET hits == {i \in DOMAIN captures : captures[i].key = key}
    IN IF hits = {} THEN None ELSE captures[Max(hits)].value

\* fn parse_manifest.  The content of a manifest is the sequence of the
\* key/value pairs key_regex captures in it.
parse_manifest(fs, path) ==
    LET content == read_to_string(fs, path)
        captures == content.ok
        appid == last_value(captures, "appid")
        name == last_value(captures, "name")
        installdir == last_value(captures, "installdir")
        metadata == [key \in {captures[i].key : i \in DOMAIN captures} |->
                        last_value(captures, key)]
    IN IF ~is_ok(content) THEN content
       ELSE IF appid = None \/ name = None \/ installdir = None THEN Ok(Nothing)
       ELSE Ok(Some([appid |-> appid, name |-> name, installdir |-> installdir,
                     metadata |-> metadata]))

\* the body of the loop of SteamDetector::detect for one manifest: the
\* games it can push
steam_game(fs, library, manifest, include_fingerprint) ==
    LET install_dir == join(library \o <<Steamapps, Common>>, <<manifest.installdir>>)
    IN {[source |-> Steam,
         id |-> manifest.appid,
         name |-> manifest.name,
         install_dir |-> install_dir,
         executable |-> executable,
         fingerprint |-> fingerprint_value(fs, executable, include_fingerprint),
         metadata |-> manifest.metadata] :
            executable \in locate_primary_executable(fs, install_dir)}

\* what one loop may append to what the loops after it return
Then(here, rest) ==
    {IF is_ok(r) THEN Ok(h \o r.ok) ELSE r : h \in here, r \in rest}

steam_skips_nothing(appid) == FALSE

\* if is_excluded_appid(&manifest.appid) { continue; }
steam_skips(appid) == is_excluded_appid(appid)

\* the inner loop of SteamDetector::detect over the entries glob yields
RECURSIVE scan_manifests(_, _, _, _)
scan_manifests(fs, library, found_entries, include_fingerprint) ==
    IF found_entries = <<>> THEN {Ok(<<>>)}
    ELSE IF ~is_ok(Head(found_entries)) THEN {Head(found_entries)}
    ELSE LET manifest == parse_manifest(fs, Head(found_entries).ok)
         IN IF ~is_ok(manifest) THEN {manifest}
            ELSE Then(IF manifest.ok = Nothing \/ steam_skips(manifest.ok[1].appid)
                      THEN {<<>>}
                      ELSE {<<g>> : g \in steam_game(fs, library, manifest.ok[1],
                                                     include_fingerprint)},
                      scan_manifests(fs, library, Tail(found_entries),
                                     include_fingerprint))

\* the outer loop of SteamDetector::detect over the library directories
RECURSIVE scan_libraries(_, _, _)
scan_libraries(fs, library_dirs, include_fingerprint) ==
    IF library_dirs = <<>> THEN {Ok(<<>>)}
    ELSE LET library == Head(library_dirs)
             globbed == glob_in(fs, library \o <<Steamapps>>,
                                ManifestPrefix, ManifestSuffix)
         IN IF ~is_ok(globbed) THEN {globbed}
            ELSE UNION {Then({h.ok},
                             scan_libraries(fs, Tail(library_dirs), include_fingerprint)) :
                          h \in {r \in scan_manifests(fs, library, globbed.ok,
                                                      include_fingerprint) : is_ok(r)}}
                 \cup {r \in scan_manifests(fs, library, globbed.ok,
                                            include_fingerprint) : ~is_ok(r)}

\* SteamDetector::detect: the results it can return
steam_detect(w, include_fingerprint) ==
    IF w.config.steam = None THEN {Ok(<<>>)}
    ELSE IF ~exists(w.fs, w.config.steam) THEN {Ok(<<>>)}
    ELSE IF ~is_ok(read_library_folders(w.fs, w.config.steam))
    THEN {read_library_folders(w.fs, w.config.steam)}
    ELSE scan_libraries(w.fs, read_library_folders(w.fs, w.config.steam).ok,
                        include_fingerprint)

-----------------------------------------------------------------------------
(* The Heroic detector (src/src/detection/heroic.rs) *)

Store == <<"s", "t", "o", "r", "e">>
LibraryJson == <<"l", "i", "b", "r", "a", "r", "y", ".", "j", "s", "o", "n">>

\* struct HeroicGame as serde reads one element of the array: every field
\* has a default, so an element fails only on a value of the wrong type
\* (IllTyped).  Strings are sequences of characters, paths are paths.
HeroicGame(identifier, title, app_name, install_path, executable, launch_options) ==
    [identifier |-> identifier, title |-> title, app_name |-> app_name,
     install_path |-> install_path, executable |-> executable,
     platform |-> None, launch_options |-> launch_options]
IllTyped == [ill_typed |-> TRUE]
well_typed(entry) == "ill_typed" \notin DOMAIN entry
all_well_typed(array) == \A i \in DOMAIN array : well_typed(array[i])

\* a library.json: text that is no JSON (NotJson), or a JSON object, here
\* the record of those of its members the detector names
NotJson == [syntax_error |-> TRUE]
is_object(json) == "syntax_error" \notin DOMAIN json

\* serde_json::from_str::<HeroicLibrary>: `games` is required
from_str_HeroicLibrary(json) ==
    IF is_object(json) /\ "games" \in DOMAIN json /\ all_well_typed(json.games)
    THEN Ok(json.games)
    ELSE Err("parse")

\* serde_json::from_str::<HeroicLegacyLibrary>(..).map(|legacy| legacy.into()):
\* `library` defaults to the empty array, other members are ignored
from_str_HeroicLegacyLibrary(json) ==
    IF ~is_object(json) THEN Err("parse")
    ELSE IF "library" \notin DOMAIN json THEN Ok(<<>>)
    ELSE IF all_well_typed(json.library) THEN Ok(json.library)
    ELSE Err("parse")

\* fn locate_executable_hint; the hint is the path the string names, the
\* empty path for the empty string
locate_executable_hint(install_dir, hint) ==
    IF hint # None /\ hint # <<>> THEN join(install_dir, hint) ELSE None

\* `let identifier = if .. else { continue }`: None stands for `continue`
heroic_identifier(entry) ==
    IF entry.identifier # <<>> THEN entry.identifier
    ELSE IF entry.app_name # None THEN entry.app_name
    ELSE IF entry.title # <<>> THEN entry.title
    ELSE None

\* entry.executable.map(PathBuf::from).or_else(|| hint).filter(|p| p.exists())
heroic_executable(fs, entry, install_dir) ==
    LET candidate == IF entry.executable # None THEN entry.executable
                     ELSE locate_executable_hint(install_dir, entry.launch_options)
    IN IF candidate # None /\ exists(fs, candidate) THEN candidate ELSE None

\* the metadata map of a Heroic game
heroic_metadata(entry) ==
    [key \in {k \in {"app_name", "platform"} : entry[k] # None} |-> entry[key]]

\* the body of the loop of parse_library_file for one entry: the games it
\* pushes, none when it skips the entry
heroic_game(fs, entry, include_fingerprint) ==
    IF entry.install_path = None \/ heroic_identifier(entry) = None THEN <<>>
    ELSE LET install_dir == entry.install_path
             executable == heroic_executable(fs, entry, install_dir)
         IN <<[source |-> Heroic,
               id |-> heroic_identifier(entry),
               name |-> IF entry.title = <<>> THEN heroic_identifier(entry)
                        ELSE entry.title,
               install_dir |-> install_dir,
               executable |-> executable,
               fingerprint |-> fingerprint_value(fs, executable, include_fingerprint),
               metadata |-> heroic_metadata(entry)]>>

RECURSIVE heroic_games(_, _, _)
heroic_games(fs, array, include_fingerprint) ==
    IF array = <<>> THEN <<>>
    ELSE heroic_game(fs, Head(array), include_fingerprint)
            \o heroic_games(fs, Tail(array), include_fingerprint)

\* fn parse_library_file
parse_library_file(fs, path, include_fingerprint) ==
    LET contents == read_to_string(fs, path)
        library == IF is_ok(from_str_HeroicLibrary(contents.ok))
                   THEN from_str_HeroicLibrary(contents.ok)
                   ELSE from_str_HeroicLegacyLibrary(contents.ok)
    IN IF ~is_ok(contents) THEN contents
       ELSE IF ~is_ok(library) THEN library
       ELSE Ok(heroic_games(fs, library.ok, include_fingerprint))

\* the loop of HeroicDetector::detect over the entries glob yields
RECURSIVE scan_library_files(_, _, _)
scan_library_files(fs, found_entries, include_fingerprint) ==
    IF found_entries = <<>> THEN Ok(<<>>)
    ELSE IF ~is_ok(Head(found_entries)) THEN Head(found_entries)
    ELSE LET parsed == parse_library_file(fs, Head(found_entries).ok, include_fingerprint)
             rest == scan_library_files(fs, Tail(found_entries), include_fingerprint)
         IN IF ~is_ok(parsed) THEN parsed
            ELSE IF ~is_ok(rest) THEN rest
            ELSE Ok(parsed.ok \o rest.ok)

\* HeroicDetector::detect: the results it can return
heroic_detect(w, include_fingerprint) ==
    IF w.config.heroic = None THEN {Ok(<<>>)}
    ELSE IF ~exists(w.fs, w.config.heroic) THEN {Ok(<<>>)}
    ELSE LET globbed == glob_below(w.fs, w.config.heroic \o <<Store>>, LibraryJson)
         IN IF ~is_ok(globbed) THEN {globbed}
            ELSE {scan_library_files(w.fs, globbed.ok, include_fingerprint)}

-----------------------------------------------------------------------------
(* The Lutris detector (src/src/detection/lutris.rs) *)

PgaDb == <<"p", "g", "a", ".", "d", "b">>

\* pga.db: an SQLite database, here the columns of its `games` table and
\* the rows of the table (column -> TEXT value or NULL, NULL being None);
\* or a file that is no database
Database(columns, rows) ==
    [kind |-> "file", readable |-> TRUE, content |-> [columns |-> columns, rows |-> rows]]
NotADatabase ==
    [kind |-> "file", readable |-> TRUE, content |-> [garbage |-> TRUE]]

\* Connection::open
connection_open(fs, db_path) ==
    IF fs[db_path].kind = "file" /\ fs[db_path].readable
    THEN Ok(fs[db_path].content)
    ELSE Err("open")

NewerQuery == <<"slug", "name", "directory", "runner">>
OlderQuery == <<"slug", "name", "directory", "exe", "runner">>

\* the closure of query_map: slug, name and directory are read as String,
\* which fails on NULL; exe and runner are read as Option<String>
row_ok(row) == row.slug # None /\ row.name # None /\ row.directory # None
LutrisGame(row, columns) ==
    [slug |-> row.slug, name |-> row.name, directory |-> row.directory,
     executable |-> IF "exe" \in Range(columns) THEN row.exe ELSE None,
     runner |-> row.runner]

\* connection.prepare("SELECT <columns> FROM games") followed by query_map
\* and collect: an error when the statement does not compile (no database,
\* a column the table lacks), when a row does not convert, or when SQLite
\* reports the database busy (`busy`)
query(connection, columns, busy) ==
    IF busy THEN Err("busy")
    ELSE IF "garbage" \in DOMAIN connection THEN Err("not a database")
    ELSE IF ~(Range(columns) \subseteq connection.columns) THEN Err("no such column")
    ELSE IF \E i \in DOMAIN connection.rows : ~row_ok(connection.rows[i])
    THEN Err("invalid column type")
    ELSE Ok([i \in DOMAIN connection.rows |-> LutrisGame(connection.rows[i], columns)])

\* entry.executable.as_ref().map(|exe| install_dir.join(exe))
lutris_executable(fs, entry) ==
    IF entry.executable # None THEN join(entry.directory, entry.executable) ELSE None

\* the body of the loop of LutrisDetector::detect for one row
lutris_game(fs, entry, include_fingerprint) ==
    [source |-> Lutris,
     id |-> entry.slug,
     name |-> entry.name,
     install_dir |-> entry.directory,
     executable |-> lutris_executable(fs, entry),
     fingerprint |-> fingerprint_value(fs, lutris_executable(fs, entry), include_fingerprint),
     metadata |-> [key \in {k \in {"runner"} : entry[k] # None} |-> entry[key]]]

lutris_games(fs, rows, include_fingerprint) ==
    [i \in DOMAIN rows |-> lutris_game(fs, rows[i], include_fingerprint)]

lutris_query_older_first(connection, busy) ==
    LET older == query(connection, OlderQuery, "older" \in busy)
        newer == query(connection, NewerQuery, "newer" \in busy)
    IN IF is_ok(older) THEN [rows |-> older, queries |-> <<"older">>]
       ELSE [rows |-> newer, queries |-> <<"older", "newer">>]

\* `let query_result = ..; match query_result { Ok(Ok(games)) => games, _ => .. }`:
\* the rows detect goes on with, or the error it returns, and the queries
\* it has run
lutris_query(connection, busy) ==
    LET newer == query(connection, NewerQuery, "newer" \in busy)
        older == query(connection, OlderQuery, "older" \in busy)
    IN IF is_ok(newer) THEN [rows |-> newer, queries |-> <<"newer">>]
       ELSE [rows |-> older, queries |-> <<"newer", "older">>]

\* the queries a detect call runs before it returns
lutris_queries(w, busy) ==
    IF w.config.lutris = None THEN <<>>
    ELSE IF ~exists(w.fs, w.config.lutris \o <<PgaDb>>) THEN <<>>
    ELSE IF ~is_ok(connection_open(w.fs, w.config.lutris \o <<PgaDb>>)) THEN <<>>
    ELSE lutris_query(connection_open(w.fs, w.config.lutris \o <<PgaDb>>).ok, busy).queries

\* LutrisDetector::detect: the results it can return
lutris_detect(w, include_fingerprint, busy) ==
    LET db_path == w.config.lutris \o <<PgaDb>>
        connection == connection_open(w.fs, db_path)
        queried == lutris_query(connection.ok, busy)
    IN IF w.config.lutris = None THEN {Ok(<<>>)}
       ELSE IF ~exists(w.fs, db_path) THEN {Ok(<<>>)}
       ELSE IF ~is_ok(connection) THEN {connection}
       ELSE IF ~is_ok(queried.rows) THEN {queried.rows}
       ELSE {Ok(lutris_games(w.fs, queried.rows.ok, include_fingerprint))}

-----------------------------------------------------------------------------
(* The worlds the detectors are run in *)

\* NvConfig.library_paths
Unset == [steam |-> None, heroic |-> None, lutris |-> None]
World(config, fs) == [config |-> config, fs |-> fs]

\* the filesystem that holds the nodes of `nodes`, a set of <<path, node>>
FsOf(nodes) ==
    [path \in {n[1] : n \in nodes} |-> (CHOOSE n \in nodes : n[1] = path)[2]]

Game == <<"G", "a", "m", "e">>
GameExe == <<"G", "a", "m", "e", ".", "e", "x", "e">>
GameSetupExe == <<"G", "a", "m", "e", "S", "e", "t", "u", "p", ".", "e", "x", "e">>

\* Steam: a root with one or two libraries
SteamRoot == <<Slash, <<"s">>>>
BracketRoot == <<Slash, <<"s", "[">>>>
SecondLibrary == <<Slash, <<"l">>>>
MissingLibrary == <<Slash, <<"x">>>>

Manifest(appid, installdir) ==
    Text(<<[key |-> "appid", value |-> appid],
           [key |-> "name", value |-> <<"N", "a", "m", "e">>],
           [key |-> "installdir", value |-> installdir]>>)
Incomplete(appid) ==
    Text(<<[key |-> "appid", value |-> appid], [key |-> "name", value |-> <<"N", "a", "m", "e">>]>>)

RootManifests ==
    {<<<<"a", "p", "p", "m", "a", "n", "i", "f", "e", "s", "t", "_", "7", ".", "a", "c", "f">>, Manifest(<<"7">>, Game)>>,
     <<<<"a", "p", "p", "m", "a", "n", "i", "f", "e", "s", "t", "_", "2", "2", "8", "9", "8", "0", ".", "a", "c", "f">>, Manifest(<<"2", "2", "8", "9", "8", "0">>, <<"R", "e", "d", "i", "s", "t">>)>>,
     <<<<"a", "p", "p", "m", "a", "n", "i", "f", "e", "s", "t", "_", "8", ".", "a", "c", "f">>, Incomplete(<<"8">>)>>,
     <<<<"a", "p", "p", "m", "a", "n", "i", "f", "e", "s", "t", "_", "9", ".", "a", "c", "f">>, Unreadable>>}
SecondManifests ==
    {<<<<"a", "p", "p", "m", "a", "n", "i", "f", "e", "s", "t", "_", "1", "4", "9", "3", "7", "1", "0", ".", "a", "c", "f">>, Manifest(<<"1", "4", "9", "3", "7", "1", "0">>, <<"P", "r", "o", "t", "o", "n">>)>>,
     <<<<"a", "p", "p", "m", "a", "n", "i", "f", "e", "s", "t", "_", "5", ".", "a", "c", "f">>, Manifest(<<"5">>, <<"O", "t", "h", "e", "r">>)>>}
\* libraryfolders.vdf, when there is one
LocalVdfFiles == {Unreadable, Text(<<>>), Text(<<MissingLibrary>>)}
SecondVdfFiles == {Text(<<SecondLibrary>>), Text(<<SecondLibrary, SecondLibrary>>)}

\* the install directory of the game of manifest 7: absent, or holding an
\* executable that can be read, one that cannot, or an installer only
GameDir(root) == root \o <<Steamapps, Common, Game>>
InstallDirs(root) ==
    {{},
     {<<GameDir(root), Dir>>, <<GameDir(root) \o <<GameExe>>, Exe(60000000, "b1", TRUE)>>},
     {<<GameDir(root), Dir>>, <<GameDir(root) \o <<GameExe>>, Exe(60000000, "b1", FALSE)>>},
     {<<GameDir(root), Dir>>, <<GameDir(root) \o <<GameSetupExe>>, Exe(2000000, "b2", TRUE)>>}}

Library(library, steamapps, manifests) ==
    {<<library, Dir>>, <<library \o <<Steamapps>>, steamapps>>}
        \cup {<<library \o <<Steamapps, m[1]>>, m[2]>> : m \in manifests}

SteamWorld(root, steamapps, vdf, manifests, second, install) ==
    World([Unset EXCEPT !.steam = root],
          FsOf(Library(root, steamapps, manifests)
               \cup Library(SecondLibrary, Dir, second)
               \cup {<<root \o <<Steamapps, LibraryFoldersVdf>>, v>> : v \in vdf}
               \cup install))

\* the worlds of the Steam detector: every set of manifests in the root
\* library, with a second library when libraryfolders.vdf lists it
SteamWorlds(w) ==
    \/ \E vdf \in {{}} \cup {{v} : v \in LocalVdfFiles},
          manifests \in SUBSET RootManifests, install \in InstallDirs(SteamRoot) :
            w = SteamWorld(SteamRoot, Dir, vdf, manifests, {}, install)
    \/ \E vdf \in SecondVdfFiles, manifests \in SUBSET RootManifests,
          second \in SUBSET SecondManifests, install \in InstallDirs(SteamRoot) :
            w = SteamWorld(SteamRoot, Dir, {vdf}, manifests, second, install)
    \/ \E root \in {SteamRoot, BracketRoot}, steamapps \in {Dir, Locked},
          manifests \in {{}, RootManifests} :
            w = SteamWorld(root, steamapps, {}, manifests, {}, {})

\* Heroic: a root with the library files of up to two stores
HeroicRoot == <<Slash, <<"h">>>>
BracketHeroicRoot == <<Slash, <<"h", "[">>>>
HeroicDir == <<Slash, <<"g">>>>
Declared == HeroicDir \o <<<<"M", "a", "i", "n", ".", "e", "x", "e">>>>
Hinted == HeroicDir \o <<GameExe>>
Gog == <<"g", "o", "g">>
Legendary == <<"l", "e", "g", "e", "n", "d", "a", "r", "y">>

Good == HeroicGame(<<"g", "o", "o", "d">>, <<"G", "o", "o", "d">>, None, HeroicDir, None, None)
\* the values the fields of an entry are drawn from
Identifiers == << <<>>, <<"i", "d">> >>
Titles == << <<>>, <<"T">> >>
AppNames == <<None, <<>>, <<"a", "p", "p">>>>
InstallPaths == <<None, HeroicDir>>
DeclaredPaths == <<None, Declared>>
LaunchOptions == <<None, <<>>, <<GameExe>> >>
\* entries that differ in what names them and in whether they are installed
NamedEntry(i) ==
    HeroicGame(Identifiers[i[1]], Titles[i[2]], AppNames[i[3]], InstallPaths[i[4]], None, None)
NamedIndex == (1..2) \X (1..2) \X (1..3) \X (1..2)
\* entries that differ in what they say of their executable
LaunchedEntry(i) ==
    HeroicGame(<<"i", "d">>, <<"T">>, None, HeroicDir, DeclaredPaths[i[1]], LaunchOptions[i[2]])
LaunchedIndex == (1..2) \X (1..3)
\* a library.json of either format whose array is the entry alone, the
\* entry before a good one, or the entry after a good one
ArrayOf(entry, shape) ==
    IF shape = 1 THEN <<entry>> ELSE IF shape = 2 THEN <<entry, Good>> ELSE <<Good, entry>>
LibraryFile(entry, shape, format) ==
    IF format = "games" THEN Text([games |-> ArrayOf(entry, shape)])
    ELSE Text([library |-> ArrayOf(entry, shape)])
Formats == {"games", "library"}
\* which of the two executables exist, and whether they can be read
Executables ==
    {{},
     {<<Declared, Exe(60000000, "b1", TRUE)>>},
     {<<Hinted, Exe(60000000, "b2", TRUE)>>},
     {<<Declared, Exe(60000000, "b1", TRUE)>>, <<Hinted, Exe(60000000, "b2", TRUE)>>},
     {<<Declared, Exe(60000000, "b1", FALSE)>>, <<Hinted, Exe(60000000, "b2", FALSE)>>}}

HeroicWorld(root, store_dir, main, other, executables) ==
    World([Unset EXCEPT !.heroic = root],
          FsOf({<<root, Dir>>, <<root \o <<Store>>, store_dir>>, <<HeroicDir, Dir>>}
               \cup {<<root \o <<Store, Gog>>, Dir>>, <<root \o <<Store, Legendary>>, Dir>>}
               \cup {<<root \o <<Store, Gog, LibraryJson>>, file>> : file \in main}
               \cup {<<root \o <<Store, Legendary, LibraryJson>>, file>> : file \in other}
               \cup executables))

GoodFile == Text([games |-> <<Good>>])
HeroicWorlds(w) ==
    \/ \E i \in NamedIndex, shape \in 1..3, format \in Formats :
          w = HeroicWorld(HeroicRoot, Dir, {LibraryFile(NamedEntry(i), shape, format)}, {}, {})
    \/ \E shape \in 1..3, format \in Formats :
          w = HeroicWorld(HeroicRoot, Dir, {LibraryFile(IllTyped, shape, format)}, {}, {})
    \/ \E i \in LaunchedIndex, shape \in 1..2, format \in Formats,
          executables \in Executables :
          w = HeroicWorld(HeroicRoot, Dir, {LibraryFile(LaunchedEntry(i), shape, format)},
                          {}, executables)
    \/ \E main \in {{}, {GoodFile}} :
          \/ w = HeroicWorld(HeroicRoot, Dir, main, {}, {})
          \/ w = HeroicWorld(HeroicRoot, Dir, main, {Unreadable}, {})
          \/ w = HeroicWorld(HeroicRoot, Dir, main, {Text(NotJson)}, {})
          \/ w = HeroicWorld(HeroicRoot, Dir, main, {Text([unrelated |-> TRUE])}, {})
          \/ w = HeroicWorld(HeroicRoot, Dir, main, {Text([games |-> <<>>])}, {})
          \/ w = HeroicWorld(HeroicRoot, Dir, main, {GoodFile}, {})
    \/ \E root \in {HeroicRoot, BracketHeroicRoot}, store_dir \in {Dir, Locked} :
          w = HeroicWorld(root, store_dir, {GoodFile}, {}, {})

\* Lutris: a root with a pga.db of either schema
LutrisRoot == <<Slash, <<"u">>>>
LutrisDir == <<Slash, <<"w">>>>
NewerSchema == {"slug", "name", "directory", "runner"}
OlderSchema == {"slug", "name", "directory", "exe", "runner"}
ForeignSchema == {"slug", "name"}
\* the values the columns of a row are drawn from
Directories == <<None, LutrisDir>>
Exes == <<None, <<GameExe>>, <<<<"G", "o", "n", "e", ".", "e", "x", "e">>>> >>
Runners == <<None, "wine">>
Row(schema, i) ==
    [column \in schema |->
        CASE column = "slug" -> <<"a">>
          [] column = "name" -> "name"
          [] column = "directory" -> Directories[i[1]]
          [] column = "exe" -> Exes[i[2]]
          [] column = "runner" -> Runners[i[3]]]
RowIndex == (1..2) \X (1..3) \X (1..2)
\* the row with a directory, an executable that exists and no runner
Plain == <<2, 2, 1>>
TableOf(schema, i, shape) ==
    IF shape = 1 THEN <<Row(schema, i)>>
    ELSE IF shape = 2 THEN <<Row(schema, i), Row(schema, Plain)>>
    ELSE <<>>
LutrisExecutables ==
    {{},
     {<<LutrisDir \o <<GameExe>>, Exe(60000000, "b1", TRUE)>>},
     {<<LutrisDir \o <<GameExe>>, Exe(60000000, "b1", FALSE)>>}}

LutrisWorld(root, database, executables) ==
    World([Unset EXCEPT !.lutris = root],
          FsOf({<<root, Dir>>, <<LutrisDir, Dir>>}
               \cup {<<root \o <<PgaDb>>, file>> : file \in database}
               \cup executables))

LutrisWorlds(w) ==
    \/ \E schema \in {NewerSchema, OlderSchema, ForeignSchema}, i \in RowIndex,
          shape \in 1..3, executables \in LutrisExecutables :
          w = LutrisWorld(LutrisRoot, {Database(schema, TableOf(schema, i, shape))}, executables)
    \/ w = LutrisWorld(LutrisRoot, {}, {})
    \/ w = LutrisWorld(LutrisRoot, {Unreadable}, {})
    \/ w = LutrisWorld(LutrisRoot, {NotADatabase}, {})

\* roots that are configured and do not exist, and roots that exist and
\* are not configured
StrayWorlds(w) ==
    \/ w = World([steam |-> SteamRoot, heroic |-> HeroicRoot, lutris |-> LutrisRoot], EmptyMap)
    \/ w = World(Unset, SteamWorld(SteamRoot, Dir, {}, RootManifests, {}, {}).fs)
    \/ w = World(Unset, HeroicWorld(HeroicRoot, Dir, {GoodFile}, {}, {}).fs)
    \/ w = World(Unset, LutrisWorld(LutrisRoot,
                                    {Database(NewerSchema, <<Row(NewerSchema, Plain)>>)},
                                    {}).fs)

-----------------------------------------------------------------------------
(* Detection: the calls and the specifications *)

\* what `ran` records of a call; a behaviour is one call in one world
Call(name, include_fingerprint, busy, queries) ==
    [call |-> name, include_fingerprint |-> include_fingerprint,
     busy |-> busy, queries |-> queries]

\* SteamDetector::detect(ctx, include_fingerprint)
SteamDetect(include_fingerprint) ==
    /\ ran.call = None
    /\ ran' = Call(Steam, include_fingerprint, {}, <<>>)
    /\ found' \in steam_detect(world, include_fingerprint)
    /\ UNCHANGED world
    /\ UNCHANGED dbvars
    /\ UNCHANGED pfvars
    /\ UNCHANGED shvars

\* HeroicDetector::detect(ctx, include_fingerprint)
HeroicDetect(include_fingerprint) ==
    /\ ran.call = None
    /\ ran' = Call(Heroic, include_fingerprint, {}, <<>>)
    /\ found' \in heroic_detect(world, include_fingerprint)
    /\ UNCHANGED world
    /\ UNCHANGED dbvars
    /\ UNCHANGED pfvars
    /\ UNCHANGED shvars

\* LutrisDetector::detect(ctx, include_fingerprint), with the queries that
\* SQLite refuses because the database is busy
LutrisDetect(include_fingerprint, busy) ==
    /\ ran.call = None
    /\ ran' = Call(Lutris, include_fingerprint, busy, lutris_queries(world, busy))
    /\ found' \in lutris_detect(world, include_fingerprint, busy)
    /\ UNCHANGED world
    /\ UNCHANGED dbvars
    /\ UNCHANGED pfvars
    /\ UNCHANGED shvars

InitDetect ==
    /\ DbInit
    /\ PfIdle
    /\ ShIdle
    /\ \/ SteamWorlds(world)
       \/ HeroicWorlds(world)
       \/ LutrisWorlds(world)
       \/ StrayWorlds(world)
    /\ ran = Call(None, FALSE, {}, <<>>)
    /\ found = None

NextDetect ==
    \/ \E include_fingerprint \in BOOLEAN : SteamDetect(include_fingerprint)
    \/ \E include_fingerprint \in BOOLEAN : HeroicDetect(include_fingerprint)
    \/ \E include_fingerprint \in BOOLEAN, busy \in SUBSET {"newer", "older"} :
          LutrisDetect(include_fingerprint, busy)

SpecDetect == InitDetect /\ [][NextDetect]_vars

\* the install directories the executable resolver is run in: a directory
\* named Game that holds any of these files, and one that does not exist
InstallDir == <<Slash, Game>>
Candidates ==
    {<<InstallDir \o <<GameExe>>, Exe(60000000, "b1", TRUE)>>,
     <<InstallDir \o <<GameSetupExe>>, Exe(60000000, "b1", TRUE)>>,
     <<InstallDir \o <<<<"b", "i", "n">>, GameExe>>, Exe(2000000, "b1", TRUE)>>,
     <<InstallDir \o <<<<"u", "n", "i", "n", "s", "0", "0", "0", ".", "e", "x", "e">>>>, Exe(2000000, "b1", TRUE)>>,
     <<InstallDir \o <<<<"L", "a", "u", "n", "c", "h", "e", "r", ".", "e", "x", "e">>>>, Exe(60000000, "b1", TRUE)>>,
     <<InstallDir \o <<<<"a">>, <<"b">>, <<"c">>, <<"D", "e", "e", "p", ".", "e", "x", "e">>>>, Exe(2000000, "b1", TRUE)>>,
     <<InstallDir \o <<<<"a">>, <<"b">>, <<"c">>, <<"d">>, <<"F", "a", "r", ".", "e", "x", "e">>>>, Exe(60000000, "b1", TRUE)>>,
     <<InstallDir \o <<<<"T", "o", "o", "l", ".", "E", "X", "E">>>>, Exe(2000000, "b1", TRUE)>>,
     <<InstallDir \o <<<<"O", "t", "h", "e", "r", ".", "e", "x", "e">>>>, Exe(2000000, "b1", TRUE)>>,
     <<InstallDir \o <<<<"r", "e", "a", "d", "m", "e", ".", "t", "x", "t">>>>, Text(<<>>)>>}
InstallWorlds(w) ==
    \/ \E files \in SUBSET Candidates :
          w = [install_dir |-> InstallDir, fs |-> FsOf({<<InstallDir, Dir>>} \cup files)]
    \/ w = [install_dir |-> InstallDir, fs |-> EmptyMap]

\* locate_primary_executable(install_dir)
LocatePrimaryExecutable ==
    /\ ran.call = None
    /\ ran' = Call("locate_primary_executable", FALSE, {}, <<>>)
    /\ found' \in locate_primary_executable(world.fs, world.install_dir)
    /\ UNCHANGED world
    /\ UNCHANGED dbvars
    /\ UNCHANGED pfvars
    /\ UNCHANGED shvars

InitResolver ==
    /\ DbInit
    /\ PfIdle
    /\ ShIdle
    /\ InstallWorlds(world)
    /\ ran = Call(None, FALSE, {}, <<>>)
    /\ found = "not yet"

NextResolver == LocatePrimaryExecutable

SpecResolver == InitResolver /\ [][NextResolver]_vars

-----------------------------------------------------------------------------
(* The executable resolver, with the order of the directory walk *)

\* the permutations of the set S: the orders in which an unordered
\* collection can be enumerated
RECURSIVE Orders(_)
Orders(S) ==
    IF S = {} THEN {<<>>}
    ELSE UNION {{<<x>> \o rest : rest \in Orders(S \ {x})} : x \in S}

\* exe_candidates.sort_by(|a, b| b_score.cmp(&a_score)) and
\* exe_candidates.into_iter().next(), for the files WalkDir yields in the
\* order `walk` and `scored`, the candidates among them paired with their
\* scores: the sort is stable, so the first candidate of the highest score
\* is returned
first_by_score(scored, walk) ==
    LET best == Max({pair[2] : pair \in scored})
        top == {pair[1] : pair \in {p \in scored : p[2] = best}}
        first == SelectSeq(walk, LAMBDA path : path \in top)
    IN IF scored = {} THEN None ELSE Head(first)

\* an install directory whose name holds a space, and the files it can hold
SpacedDir == <<Slash, <<"M", "y", " ", "G", "a", "m", "e">>>>
Ranked ==
    {<<SpacedDir \o <<<<"M", "y", "G", "a", "m", "e", ".", "e", "x", "e">>>>, Exe(60000000, "b1", TRUE)>>,
     <<SpacedDir \o <<<<"M", "y", " ", "G", "a", "m", "e", ".", "e", "x", "e">>>>, Exe(60000000, "b1", TRUE)>>,
     <<SpacedDir \o <<<<"x", "6", "4">>, <<"C", "l", "i", "e", "n", "t", "-", "W", "i", "n", "6", "4", "-", "S", "h", "i", "p", "p", "i", "n", "g", ".", "e", "x", "e">>>>, Exe(2000000, "b1", TRUE)>>,
     <<SpacedDir \o <<<<"b", "i", "n">>, <<"P", "l", "a", "y", ".", "e", "x", "e">>>>, Exe(2000000, "b1", TRUE)>>,
     <<SpacedDir \o <<<<"S", "e", "r", "v", "e", "r", ".", "e", "x", "e">>>>, Exe(500000, "b1", TRUE)>>,
     <<SpacedDir \o <<<<"S", "e", "t", "u", "p", ".", "e", "x", "e">>>>, Exe(60000000, "b1", TRUE)>>}
RankedWorlds(w) ==
    \E files \in SUBSET Ranked :
        w = [install_dir |-> SpacedDir, fs |-> FsOf({<<SpacedDir, Dir>>} \cup files)]

\* locate_primary_executable(install_dir), the directory walk yielding the
\* files in one of the orders the filesystem can list them in
LocateInWalkOrder ==
    /\ ran.call = None
    /\ LET scored == {<<path, score_executable(world.fs, path, world.install_dir)>> :
                        path \in exe_candidates(world.fs, world.install_dir)}
       IN \E walk \in Orders(walked(world.fs, world.install_dir)) :
             /\ order' = walk
             /\ found' = first_by_score(scored, walk)
    /\ ran' = Call("locate_primary_executable", FALSE, {}, <<>>)
    /\ UNCHANGED world
    /\ UNCHANGED <<disk, procs, cmd>>
    /\ UNCHANGED dbvars
    /\ UNCHANGED pfvars

InitRanking ==
    /\ DbInit
    /\ PfIdle
    /\ RankedWorlds(world)
    /\ ran = Call(None, FALSE, {}, <<>>)
    /\ found = "not yet"
    /\ disk = NoFile
    /\ procs = None
    /\ order = <<>>
    /\ cmd = None

NextRanking == LocateInWalkOrder

SpecRanking == InitRanking /\ [][NextRanking]_vars

-----------------------------------------------------------------------------
(* The persisted database: games.yaml (src/src/detection/database.rs) *)

\* #[serde(rename_all = "snake_case")] GameSource, written and read back
source_to_yaml(source) == Display(source)
source_from_yaml(text) == CHOOSE source \in GameSource : Display(source) = text

\* a field that skip_serializing_if = "Option::is_none" leaves out
Optional(field, value) ==
    IF value = None THEN EmptyMap ELSE [k \in {field} |-> value]

\* Serialize for GameRecord: a mapping of the fields that are written
record_to_yaml(record) ==
    [k \in {"source", "name", "install_dir", "last_seen", "metadata"} |->
        CASE k = "source" -> source_to_yaml(record.source)
          [] k = "name" -> record.name
          [] k = "install_dir" -> record.install_dir
          [] k = "last_seen" -> record.last_seen
          [] k = "metadata" -> record.metadata]
    @@ Optional("executable", record.executable)
    @@ Optional("fingerprint", record.fingerprint)
    @@ Optional("profile", record.profile)

\* Deserialize for GameRecord: an Option that is not written reads as None
record_from_yaml(yaml) ==
    [source |-> source_from_yaml(yaml["source"]),
     name |-> yaml["name"],
     install_dir |-> yaml["install_dir"],
     executable |-> IF "executable" \in DOMAIN yaml THEN yaml["executable"] ELSE None,
     fingerprint |-> IF "fingerprint" \in DOMAIN yaml THEN yaml["fingerprint"] ELSE None,
     last_seen |-> yaml["last_seen"],
     metadata |-> yaml["metadata"],
     profile |-> IF "profile" \in DOMAIN yaml THEN yaml["profile"] ELSE None]

\* serde_yaml::to_string(self) and serde_yaml::from_str(&contents)
to_yaml(e) == [document |-> [key \in DOMAIN e |-> record_to_yaml(e[key])]]
from_yaml(contents) ==
    [key \in DOMAIN contents.document |-> record_from_yaml(contents.document[key])]

\* a games.yaml that does not parse as a GameDatabase
Garbled == [garbled |-> TRUE]

\* GameDatabase::load_or_default: the default when there is no file, an
\* error when the file does not parse
load_or_default(file) ==
    IF file = NoFile THEN Ok(EmptyMap)
    ELSE IF "garbled" \in DOMAIN file THEN Err("failed to parse game database YAML")
    ELSE Ok(from_yaml(file))

\* GameDatabase::save: the file is replaced by the encoded database
save(e) == to_yaml(e)

-----------------------------------------------------------------------------
(* GameDatabase: profiles of games, the HashMap iterated in `keys` order *)

\* the first key, in iteration order, that the id lookup matches
first_match(keys, game_id) ==
    LET hits == SelectSeq(keys, LAMBDA key : key_matches(key, game_id))
    IN IF hits = <<>> THEN None ELSE Head(hits)

set_game_profile_every_match(e, keys, game_id, profile) ==
    [key \in DOMAIN e |->
        IF key_matches(key, game_id) THEN [e[key] EXCEPT !.profile = profile] ELSE e[key]]

\* GameDatabase::set_game_profile: the first match gets the profile
set_game_profile(e, keys, game_id, profile) ==
    LET hit == first_match(keys, game_id)
    IN [key \in DOMAIN e |->
          IF hit # None /\ key = hit THEN [e[key] EXCEPT !.profile = profile] ELSE e[key]]

\* GameDatabase::get_game_profile: the profile of the first match
get_game_profile(e, keys, game_id) ==
    LET hit == first_match(keys, game_id)
    IN IF hit = None THEN None ELSE e[hit].profile

\* the orders a HashMap can be iterated in once `e` has become `after`: the
\* same order while no key is inserted or removed, any order otherwise
Reordered(e, keys, after) ==
    IF DOMAIN after = DOMAIN e THEN {keys} ELSE Orders(DOMAIN after)

\* the detections of one id by two sources, re-detected with another name,
\* install directory, executable and metadata
Meta(k, v) == [x \in {k} |-> v]
VariedGames ==
    {[source |-> source, id |-> <<"7">>, name |-> variant.name,
      install_dir |-> variant.install_dir, executable |-> variant.executable,
      fingerprint |-> None, metadata |-> variant.metadata] :
        source \in SourcesIn,
        variant \in {[name |-> "name", install_dir |-> "dir", executable |-> "exe",
                      metadata |-> Meta("k", "v1")],
                     [name |-> "renamed", install_dir |-> "moved", executable |-> None,
                      metadata |-> Meta("k", "v2") @@ Meta("j", "w")]}}
\* slices of one game and of two
VariedSlices ==
    {<<g>> : g \in VariedGames}
        \cup {<<g, h>> : g \in {v \in VariedGames : v.source = Steam /\ v.name = "name"},
                         h \in {v \in VariedGames : v.source # Steam /\ v.name = "name"}}
ProfileIds == {<<"7">>, game_key([source |-> Steam, id |-> <<"7">>]), <<"9">>}
AssignedProfiles == {"A", "B"}

\* what `history` keeps of the last set_game_profile since the last merge:
\* its arguments, whether a record matched, whether the database was saved
\* after it; a load forgets a set_game_profile that was not saved
NoSet == [game_id |-> None, profile |-> None, matched |-> FALSE, saved |-> FALSE]

\* db.merge_detected(games, timestamp)
MergeRecords(gs, timestamp) ==
    /\ merges < MaxMerges
    /\ entries' = merge_detected(entries, gs, timestamp)
    /\ order' \in Reordered(entries, order, entries')
    /\ op' = "merge_detected"
    /\ arg' = gs
    /\ ret' = None
    /\ merges' = merges + 1
    /\ history' = NoSet
    /\ UNCHANGED <<seenAt, disk, procs, cmd>>
    /\ UNCHANGED pfvars
    /\ UNCHANGED dtvars

\* db.set_game_profile(game_id, profile)
SetGameProfile(game_id, profile) ==
    /\ entries' = set_game_profile(entries, order, game_id, profile)
    /\ op' = "set_game_profile"
    /\ arg' = game_id
    /\ ret' = None
    /\ history' = [game_id |-> game_id, profile |-> profile,
                   matched |-> first_match(order, game_id) # None, saved |-> FALSE]
    /\ UNCHANGED <<merges, seenAt, order, disk, procs, cmd>>
    /\ UNCHANGED pfvars
    /\ UNCHANGED dtvars

\* db.get_game_profile(game_id)
GetGameProfile(game_id) ==
    /\ ret' = get_game_profile(entries, order, game_id)
    /\ op' = "get_game_profile"
    /\ arg' = game_id
    /\ UNCHANGED <<entries, merges, seenAt, history, order, disk, procs, cmd>>
    /\ UNCHANGED pfvars
    /\ UNCHANGED dtvars

\* db.save(paths)
Save ==
    /\ disk' = save(entries)
    /\ op' = "save"
    /\ arg' = None
    /\ ret' = None
    /\ history' = [history EXCEPT !.saved = TRUE]
    /\ UNCHANGED <<entries, merges, seenAt, order, procs, cmd>>
    /\ UNCHANGED pfvars
    /\ UNCHANGED dtvars

\* GameDatabase::load_or_default(paths) in a later run of the program: the
\* database is read into a new HashMap
LoadOrDefault ==
    /\ entries' = load_or_default(disk).ok
    /\ order' \in Orders(DOMAIN entries')
    /\ op' = "load_or_default"
    /\ arg' = None
    /\ ret' = None
    /\ history' = IF history.saved THEN history ELSE NoSet
    /\ UNCHANGED <<merges, seenAt, disk, procs, cmd>>
    /\ UNCHANGED pfvars
    /\ UNCHANGED dtvars

InitRecords ==
    /\ entries = EmptyMap
    /\ op = "new"
    /\ arg = None
    /\ ret = None
    /\ merges = 0
    /\ seenAt = EmptyMap
    /\ history = NoSet
    /\ order = <<>>
    /\ disk = NoFile
    /\ procs = None
    /\ cmd = None
    /\ PfIdle
    /\ DtIdle

NextRecords ==
    \/ \E gs \in VariedSlices : MergeRecords(gs, merges + 1)
    \/ \E game_id \in ProfileIds, profile \in AssignedProfiles :
          SetGameProfile(game_id, profile)
    \/ \E game_id \in ProfileIds : GetGameProfile(game_id)
    \/ Save
    \/ LoadOrDefault

SpecRecords == InitRecords /\ [][NextRecords]_vars

-----------------------------------------------------------------------------
(* Two processes on one games.yaml: games set-profile and detect --update-db *)

Processes == {1, 2}

\* a process before it has read anything
Started(command) ==
    [at |-> "start", command |-> command, db |-> EmptyMap, keys |-> <<>>,
     loaded |-> NoFile, result |-> None]

\* the commands a process runs: handle_set_profile(args) and
\* maybe_update_database(ctx, update, games), with the clock it will read
SharedCommands ==
    {[handler |-> "handle_set_profile", game_id |-> game_id, profile |-> profile] :
        game_id \in {<<"7">>, <<"9">>}, profile \in {"A", "B"}}
    \cup
    {[handler |-> "maybe_update_database", update |-> update, games |-> <<game>>,
      timestamp |-> timestamp] :
        update \in BOOLEAN, game \in VariedGames, timestamp \in 1..MaxTime}

\* the games.yaml the processes find
SharedFiles ==
    {NoFile,
     save(merge_detected(EmptyMap,
                         <<CHOOSE g \in VariedGames : g.source = Steam /\ g.name = "name">>,
                         1))}

\* the in-memory work of handle_set_profile between its load and its save:
\* the two checks, then set_game_profile
set_profile_checked(db, keys, profiles, command) ==
    IF get(db, command.game_id) = {Nothing} THEN Err("Game not found in database")
    ELSE IF command.profile \notin DOMAIN profiles THEN Err("Profile not found")
    ELSE Ok(set_game_profile(db, keys, command.game_id, command.profile))

\* the in-memory work of a command between its load and its save
mutated(db, keys, profiles, command) ==
    IF command.handler = "handle_set_profile"
    THEN set_profile_checked(db, keys, profiles, command)
    ELSE Ok(merge_detected(db, command.games, command.timestamp))

\* maybe_update_database with update = false: nothing is read or written
ProcSkips(p) ==
    /\ procs[p].at = "start"
    /\ procs[p].command.handler = "maybe_update_database"
    /\ ~procs[p].command.update
    /\ procs' = [procs EXCEPT ![p].at = "done"]
    /\ op' = "return"
    /\ arg' = p
    /\ UNCHANGED <<entries, ret, merges, seenAt, history, disk, order, cmd>>
    /\ UNCHANGED pfvars
    /\ UNCHANGED dtvars

\* GameDatabase::load_or_default(paths) of process p
ProcLoads(p) ==
    /\ procs[p].at = "start"
    /\ procs[p].command.handler = "maybe_update_database" => procs[p].command.update
    /\ \E keys \in Orders(DOMAIN load_or_default(disk).ok) :
          procs' = [procs EXCEPT ![p].at = "loaded",
                                 ![p].db = load_or_default(disk).ok,
                                 ![p].keys = keys,
                                 ![p].loaded = disk]
    /\ op' = "load_or_default"
    /\ arg' = p
    /\ UNCHANGED <<entries, ret, merges, seenAt, history, disk, order, cmd>>
    /\ UNCHANGED pfvars
    /\ UNCHANGED dtvars

ProcSaves_on_reloaded(p) ==
    /\ procs[p].at = "loaded"
    /\ LET fresh == load_or_default(disk).ok
           after == mutated(fresh, procs[p].keys, store, procs[p].command)
       IN IF "err" \in DOMAIN after
          THEN /\ procs' = [procs EXCEPT ![p].at = "failed", ![p].result = after.err]
               /\ op' = "bail"
               /\ UNCHANGED disk
          ELSE /\ procs' = [procs EXCEPT ![p].at = "done", ![p].db = after.ok]
               /\ op' = "save"
               /\ disk' = save(after.ok)
    /\ arg' = p
    /\ UNCHANGED <<entries, ret, merges, seenAt, history, order, cmd>>
    /\ UNCHANGED pfvars
    /\ UNCHANGED dtvars

\* the rest of the command of process p: its work in memory and, unless it
\* bails, db.save(paths)
ProcSaves(p) ==
    /\ procs[p].at = "loaded"
    /\ LET after == mutated(procs[p].db, procs[p].keys, store, procs[p].command)
       IN IF "err" \in DOMAIN after
          THEN /\ procs' = [procs EXCEPT ![p].at = "failed", ![p].result = after.err]
               /\ op' = "bail"
               /\ UNCHANGED disk
          ELSE /\ procs' = [procs EXCEPT ![p].at = "done", ![p].db = after.ok]
               /\ op' = "save"
               /\ disk' = save(after.ok)
    /\ arg' = p
    /\ UNCHANGED <<entries, ret, merges, seenAt, history, order, cmd>>
    /\ UNCHANGED pfvars
    /\ UNCHANGED dtvars

InitShared ==
    /\ DbInit
    /\ DtIdle
    /\ store = [n \in {"A"} |-> Document("A", None, EmptyMapping)]
    /\ pc = "idle"
    /\ requested = None
    /\ chain = <<>>
    /\ cursor = None
    /\ outcome = None
    /\ disk \in SharedFiles
    /\ procs \in [Processes -> {Started(command) : command \in SharedCommands}]
    /\ order = None
    /\ cmd = None

NextShared ==
    \E p \in Processes : ProcSkips(p) \/ ProcLoads(p) \/ ProcSaves(p)

SpecShared == InitShared /\ [][NextShared]_vars

-----------------------------------------------------------------------------
(* games scan: the three detectors, then the database (src/src/games.rs) *)

\* the games a detector contributes to all_games: none when it fails
games_found(result) == IF is_ok(result) THEN result.ok ELSE <<>>

\* handle_scan from its load on: load_or_default, cleanup_excluded,
\* merge_detected; the database that is saved, or the error of the load
scanned_database(file, all_games, timestamp) ==
    IF ~is_ok(load_or_default(file)) THEN load_or_default(file)
    ELSE Ok(merge_detected(retained(load_or_default(file).ok), all_games, timestamp))

\* worlds with the three roots configured: any set of Steam manifests, a
\* Heroic library and a Lutris database that are absent, good or unusable
ScanWorlds(w) ==
    \E manifests \in SUBSET RootManifests, steamapps \in {Dir, Locked},
       main \in {{}, {GoodFile}, {Unreadable}},
       database \in {{}, {Database(NewerSchema, <<Row(NewerSchema, Plain)>>)}, {NotADatabase}} :
        w = World([steam |-> SteamRoot, heroic |-> HeroicRoot, lutris |-> LutrisRoot],
                  SteamWorld(SteamRoot, steamapps, {}, manifests, {}, {}).fs
                  @@ HeroicWorld(HeroicRoot, Dir, main, {}, {}).fs
                  @@ LutrisWorld(LutrisRoot, database, {}).fs)

\* the games.yaml a scan finds: none, one that does not parse, and those that
\* earlier merges of up to two detections have left, excluded AppIDs included
ScannedFiles ==
    {NoFile, Garbled} \cup {save(merge_detected(EmptyMap, gs, 1)) : gs \in SeqsUpTo(DetectedGames, 2)}

\* handle_scan(args, manager, config)
HandleScan(include_fingerprint, timestamp) ==
    /\ merges < MaxMerges
    /\ \E steam \in steam_detect(world, include_fingerprint),
          heroic \in heroic_detect(world, include_fingerprint),
          lutris \in lutris_detect(world, include_fingerprint, {}) :
          LET all_games == games_found(steam) \o games_found(heroic) \o games_found(lutris)
              after == scanned_database(disk, all_games, timestamp)
          IN /\ found' = all_games
             /\ IF is_ok(after)
                THEN /\ entries' = after.ok
                     /\ disk' = save(after.ok)
                     /\ arg' = load_or_default(disk).ok
                     /\ ret' = Ok(Len(all_games))
                ELSE /\ ret' = after
                     /\ arg' = None
                     /\ UNCHANGED <<entries, disk>>
    /\ op' = "handle_scan"
    /\ ran' = Call("handle_scan", include_fingerprint, {}, <<>>)
    /\ merges' = merges + 1
    /\ UNCHANGED <<seenAt, history, world, procs, order, cmd>>
    /\ UNCHANGED pfvars

InitScan ==
    /\ DbInit
    /\ PfIdle
    /\ ScanWorlds(world)
    /\ ran = Call(None, FALSE, {}, <<>>)
    /\ found = None
    /\ disk \in ScannedFiles
    /\ procs = None
    /\ order = None
    /\ cmd = None

NextScan ==
    \E include_fingerprint \in BOOLEAN : HandleScan(include_fingerprint, merges + 1)

SpecScan == InitScan /\ [][NextScan]_vars

-----------------------------------------------------------------------------
(* The profile commands (src/src/profile/mod.rs) on the profiles directory *)

\* str::split(separator): the parts of s between the separators
RECURSIVE split(_, _)
split(s, separator) ==
    LET hits == {i \in 1..Len(s) : s[i] = separator}
        i == CHOOSE h \in hits : \A j \in hits : h <= j
    IN IF hits = {} THEN <<s>>
       ELSE <<SubSeq(s, 1, i - 1)>> \o split(SubSeq(s, i + 1, Len(s)), separator)

\* where root.join(..) of a relative path lies, the directories that `.`
\* and empty components stand for passed over: a file of the profiles
\* directory, named by its stem, or a file of a directory below it
DotYaml == <<".", "y", "a", "m", "l">>
Below == <<"/">>
file_in_root(relative) ==
    LET components == SelectSeq(split(relative, "/"), LAMBDA c : c # <<>> /\ c # <<".">>)
        file == components[Len(components)]
    IN IF Len(components) = 1
       THEN SubSeq(file, 1, Len(file) - Len(DotYaml))
       ELSE Below

\* ProfileManager::path_for: self.root.join(format!("{}.yaml", name))
path_for(name) == file_in_root(name \o DotYaml)

\* ProfileManager::exists; the profiles directory has no directories in it
profile_exists(files, name) ==
    path_for(name) # Below /\ path_for(name) \in DOMAIN files

\* ProfileManager::load: the document read from path_for(name)
manager_load(files, name) ==
    IF profile_exists(files, name) THEN Ok(files[path_for(name)])
    ELSE Err("failed to read profile")

\* ProfileManager::save: the document written to path_for(&document.name);
\* File::create fails where the directory of the path does not exist
manager_save(files, document) ==
    IF path_for(document.name) = Below THEN Err("failed to open profile file")
    ELSE Ok(Insert(files, path_for(document.name), document))

RECURSIVE set_parts_in_new_mapping(_, _, _)
set_parts_in_new_mapping(current, parts, value) ==
    IF Len(parts) = 1 THEN Ok(Insert(current, Head(parts), value))
    ELSE LET entry == Mapping(EmptyMapping)
             below == set_parts_in_new_mapping(entry.mapping, Tail(parts), value)
         IN IF ~is_mapping(entry) THEN Err("conflicts with non-mapping value")
            ELSE IF ~is_ok(below) THEN below
            ELSE Ok(Insert(current, Head(parts), Mapping(below.ok)))

\* the loop of set_nested_value: the last part is inserted; a part before it
\* is entered, a Mapping being inserted where there is no entry
RECURSIVE set_parts(_, _, _)
set_parts(current, parts, value) ==
    IF Len(parts) = 1 THEN Ok(Insert(current, Head(parts), value))
    ELSE LET entry == IF Head(parts) \in DOMAIN current THEN current[Head(parts)]
                      ELSE Mapping(EmptyMapping)
             below == set_parts(entry.mapping, Tail(parts), value)
         IN IF ~is_mapping(entry) THEN Err("conflicts with non-mapping value")
            ELSE IF ~is_ok(below) THEN below
            ELSE Ok(Insert(current, Head(parts), Mapping(below.ok)))

\* fn set_nested_value
set_nested_value(root, key, value) == set_parts(root, split(key, "."), value)

\* fn apply_sets: the settings after every pair is set, or the first error
RECURSIVE apply_sets(_, _)
apply_sets(settings, values) ==
    IF values = <<>> THEN Ok(settings)
    ELSE LET first == set_nested_value(settings, Head(values)[1], Scalar(Head(values)[2]))
         IN IF ~is_ok(first) THEN first ELSE apply_sets(first.ok, Tail(values))

\* ProfileCommand::Create: the document that is saved, or the error
created(files, name, base, values) ==
    IF profile_exists(files, name) THEN Err("profile already exists")
    ELSE IF ~is_ok(apply_sets(EmptyMapping, values)) THEN apply_sets(EmptyMapping, values)
    ELSE Ok(Document(name, base, apply_sets(EmptyMapping, values).ok))

\* ProfileCommand::Set: the document that is saved, or the error
updated(files, name, values) ==
    LET document == manager_load(files, name)
    IN IF ~is_ok(document) THEN document
       ELSE IF ~is_ok(apply_sets(document.ok.settings, values))
       THEN apply_sets(document.ok.settings, values)
       ELSE Ok([document.ok EXCEPT !.settings = apply_sets(document.ok.settings, values).ok])

\* ProfileCommand::Import: the document that is saved, or the error; the
\* file holds a document, holds something else, or cannot be read
imported(file, name) ==
    IF file = NoFile THEN Err("failed to read profile")
    ELSE IF "name" \notin DOMAIN file THEN Err("failed to parse profile document")
    ELSE Ok(IF name = Nothing THEN file ELSE [file EXCEPT !.name = name[1]])

\* the arguments of the commands; an Option<String> is Nothing or Some(s)
CommandNames == {<<"x">>, <<".", "/", "x">>, <<"d", "/", "x">>}
SetKeys == {<<"a">>, <<"a", ".", "b">>, <<"a", ".", "c">>, <<"a", ".", "b", ".", "c">>}
CreateLists == {<<>>, <<<<<<"a", ".", "b">>, "1">>>>, <<<<<<"a">>, "2">>>>}
SetLists ==
    {<<>>} \cup {<<<<key, "1">>>> : key \in SetKeys} \cup {<<<<<<"a", ".", "b">>, "2">>>>}
        \cup {<< <<<<"a", ".", "b">>, "1">>, <<<<"a", ".", "c">>, "2">> >>,
              << <<<<"a", ".", "c">>, "1">>, <<<<"a", ".", "b", ".", "c">>, "2">> >>,
              << <<<<"a", ".", "b">>, "1">>, <<<<"a", ".", "b", ".", "c">>, "2">> >>}
ImportedFiles ==
    {NoFile, NotJson,
     Document(<<"x">>, Nothing, EmptyMapping),
     Document(<<"y">>, Some(<<"x">>), [k \in {<<"a">>} |-> Scalar("1")])}


\* what `cmd` keeps of a command: its arguments, the directory it found,
\* the document it built and whether it ended in an error
Ran(command, name, values, files, result) ==
    [command |-> command, name |-> name, values |-> values, before |-> files,
     result |-> result]

\* a command from the document it built on: the save, or no write
persisted(files, built) ==
    IF is_ok(built) THEN manager_save(files, built.ok) ELSE built
outcome_of(files, built) ==
    IF is_ok(persisted(files, built)) THEN built ELSE persisted(files, built)
directory_after(files, built) ==
    IF is_ok(persisted(files, built)) THEN persisted(files, built).ok ELSE files

\* nvproton profile create <name> [--base <base>] [--set key=value]..
Create(name, base, values) ==
    /\ store' = directory_after(store, created(store, name, base, values))
    /\ cmd' = Ran("create", name, values, store,
                  outcome_of(store, created(store, name, base, values)))
    /\ UNCHANGED <<pc, requested, chain, cursor, outcome>>
    /\ UNCHANGED <<disk, procs, order>>
    /\ UNCHANGED dbvars
    /\ UNCHANGED dtvars

\* nvproton profile set <name> [--set key=value]..
Set(name, values) ==
    /\ store' = directory_after(store, updated(store, name, values))
    /\ cmd' = Ran("set", name, values, store,
                  outcome_of(store, updated(store, name, values)))
    /\ UNCHANGED <<pc, requested, chain, cursor, outcome>>
    /\ UNCHANGED <<disk, procs, order>>
    /\ UNCHANGED dbvars
    /\ UNCHANGED dtvars

\* nvproton profile import <path> [--name <name>]
Import(file, name) ==
    /\ store' = directory_after(store, imported(file, name))
    /\ cmd' = Ran("import", name, <<>>, store, outcome_of(store, imported(file, name)))
    /\ UNCHANGED <<pc, requested, chain, cursor, outcome>>
    /\ UNCHANGED <<disk, procs, order>>
    /\ UNCHANGED dbvars
    /\ UNCHANGED dtvars

\* the profiles directory is empty and no command has run
InitCommands ==
    /\ DbInit
    /\ DtIdle
    /\ PfIdle
    /\ disk = NoFile
    /\ procs = None
    /\ order = None
    /\ cmd = Ran("new", <<>>, <<>>, EmptyMap, Err("no command has run"))

NextCommands ==
    \/ \E name \in CommandNames, base \in {Nothing, Some(<<"x">>)}, values \in CreateLists :
          Create(name, base, values)
    \/ \E name \in CommandNames, values \in SetLists : Set(name, values)
    \/ \E file \in ImportedFiles, name \in {Nothing} \cup {Some(n) : n \in CommandNames} :
          Import(file, name)

SpecCommands == InitCommands /\ [][NextCommands]_vars

-----------------------------------------------------------------------------
(* Properties of the Game Database *)

\* the records of the pair p: those of its source whose key is the source's
\* name, a ':' and the id
RecordsOf(p) ==
    {key \in DOMAIN entries :
        /\ entries[key].source = p.source
        /\ Len(key) > Len(Display(p.source))
        /\ SubSeq(key, 1, Len(Display(p.source))) = Display(p.source)
        /\ key[Len(Display(p.source)) + 1] = ":"
        /\ SubSeq(key, Len(Display(p.source)) + 2, Len(key)) = p.id}

\* the pair a record was created from
OriginOf(key) == CHOOSE p \in DOMAIN seenAt : key \in RecordsOf(p)

\* C1: after any sequence of merge_detected calls on an empty database there
\* is exactly one record for each (source, id) that was merged, and no record
\* for any other pair.
ThmOneRecordPerPair ==
    /\ \A p \in DOMAIN seenAt : Cardinality(RecordsOf(p)) = 1
    /\ \A key \in DOMAIN entries : \E p \in DOMAIN seenAt : key \in RecordsOf(p)
    /\ Cardinality(DOMAIN entries) = Cardinality(DOMAIN seenAt)

\* a pair came twice in one slice, another came in two calls, and two sources
\* share an id
WitOneRecordPerPair ==
    /\ merges = 2
    /\ history.repeated
    /\ history.again
    /\ \E p, q \in DOMAIN seenAt : p.id = q.id /\ p.source # q.source

\* C2: a merge never takes a recorded fingerprint away, and after it every
\* record holds the fingerprint of the latest detection of its pair that
\* carried one: a detection without fingerprint keeps the recorded one, a
\* detection with a fingerprint stores the new one.
ThmFingerprintSticky ==
    [][ /\ \A key \in DOMAIN entries :
              /\ key \in DOMAIN entries'
              /\ entries[key].fingerprint # None => entries'[key].fingerprint # None
        /\ \A p \in DOMAIN seenAt' : \A key \in DOMAIN entries' :
              (entries'[key].source = p.source /\ key = Display(p.source) \o <<":">> \o p.id)
                  => entries'[key].fingerprint = seenAt'[p].carried ]_vars

\* a record keeps its fingerprint although the latest detection had none
WitFingerprintSticky ==
    \E p \in DOMAIN seenAt :
        /\ seenAt[p].last = None
        /\ seenAt[p].carried # None
        /\ \E key \in RecordsOf(p) : entries[key].fingerprint = seenAt[p].carried

\* C3: when the merges come with increasing timestamps, every record's
\* last_seen is the latest timestamp at which its pair was detected.
ThmLastSeenLatest ==
    history.increasing =>
        \A p \in DOMAIN seenAt : \A key \in RecordsOf(p) :
            entries[key].last_seen = seenAt[p].latest

\* two merges at t1 < t2, one pair in both and one pair in the first only
WitLastSeenLatest ==
    /\ merges = 2
    /\ history.increasing
    /\ history.again
    /\ \E p \in DOMAIN seenAt : \E key \in RecordsOf(p) :
          seenAt[p].latest < history.stamp /\ entries[key].last_seen = seenAt[p].latest

\* the records cleanup_excluded is to remove: Steam records whose bare id is
\* an excluded AppID
Internal(e) ==
    {key \in DOMAIN e : e[key].source = Steam /\ is_excluded_appid(OriginOf(key).id)}

\* C4: cleanup_excluded removes every Steam record whose bare id is in the
\* exclusion set and no other record.
CexCleanupAllAndOnly ==
    [][ op' = "cleanup_excluded" =>
          /\ DOMAIN entries' = DOMAIN entries \ Internal(entries)
          /\ \A key \in DOMAIN entries' : entries'[key] = entries[key] ]_vars

\* C5: cleanup_excluded returns the number of records it removed, and a
\* second call right after it returns 0 and changes nothing.
ThmCleanupCountIdempotent ==
    [][ op' = "cleanup_excluded" =>
          /\ DOMAIN entries' \subseteq DOMAIN entries
          /\ ret' = Cardinality(DOMAIN entries \ DOMAIN entries')
          /\ op = "cleanup_excluded" => (ret' = 0 /\ entries' = entries) ]_vars

\* a cleanup that finds nothing to remove, in a database a cleanup has
\* removed a record from
WitCleanupCountIdempotent ==
    /\ op = "cleanup_excluded"
    /\ ret = 0
    /\ entries # EmptyMap
    /\ \E p \in DOMAIN seenAt : RecordsOf(p) = {}

\* q is what follows some ':' of key
AfterColon(key, q) ==
    \E n \in 1..Len(key) : key[n] = ":" /\ SubSeq(key, n + 1, Len(key)) = q

\* C6: get finds a stored record by its bare id and by its full key, and
\* returns None exactly when no key equals the query or ends with ':' and
\* the query.
ThmGetByIdOrKey ==
    op = "get" =>
        /\ ret = Nothing <=>
              ~\E key \in DOMAIN entries : key = arg \/ AfterColon(key, arg)
        /\ \A p \in DOMAIN seenAt :
              (RecordsOf(p) # {} /\ arg \in {p.id, Display(p.source) \o <<":">> \o p.id})
                  => ret # Nothing

\* get by bare id has found a record
WitGetByIdOrKey ==
    /\ op = "get"
    /\ ret # Nothing
    /\ \E p \in DOMAIN seenAt : RecordsOf(p) # {} /\ arg = p.id

\* C7: games() yields no Steam record whose AppID is in the exclusion set and
\* yields every other record.
CexGamesHidesOnlyInternal ==
    op = "games" =>
        /\ \A key \in DOMAIN ret : ~(ret[key].source = Steam /\ is_excluded_appid(ret[key].id))
        /\ DOMAIN ret = DOMAIN entries \ Internal(entries)

-----------------------------------------------------------------------------
(* Properties of profile resolution *)

Missing == "Missing"

\* the parent named by the stored document n
Parent(st, n) == IF n \in DOMAIN st THEN st[n].extends ELSE Missing

\* the k-th name on the extends chain that starts at n
RECURSIVE Ancestor(_, _, _)
Ancestor(st, n, k) == IF k = 0 THEN n ELSE Parent(st, Ancestor(st, n, k - 1))

Generations == 0..Cardinality(ProfileNames)

\* the chain from n ends at a stored document that extends nothing
Rooted(st, n) == \E k \in Generations : Ancestor(st, n, k) = None

\* the chain from n comes back to a stored document it has passed
Cyclic(st, n) ==
    \E i, j \in Generations :
        /\ i < j
        /\ Ancestor(st, n, i) \in DOMAIN st
        /\ Ancestor(st, n, j) = Ancestor(st, n, i)

\* the documents of a rooted chain, the resolved profile first
Lineage(st, n) ==
    LET depth == CHOOSE k \in Generations : Ancestor(st, n, k) = None
    IN [i \in 1..depth |-> st[Ancestor(st, n, i - 1)]]

Absent == [absent |-> TRUE]
SettingKeys == {"x", "y", "a", "b"}
Paths == {<<k>> : k \in SettingKeys} \cup {<<k, j>> : k, j \in SettingKeys}

\* the value a mapping holds at a path of keys
RECURSIVE ValueAt(_, _)
ValueAt(m, path) ==
    IF Head(path) \notin DOMAIN m THEN Absent
    ELSE IF Len(path) = 1 THEN m[Head(path)]
    ELSE IF is_mapping(m[Head(path)]) THEN ValueAt(m[Head(path)].mapping, Tail(path))
    ELSE Absent

Defines(m, path) == ValueAt(m, path) # Absent

\* m holds a scalar at a proper prefix of the path
ScalarAbove(m, path) ==
    \E n \in 1..(Len(path) - 1) :
        /\ Defines(m, SubSeq(path, 1, n))
        /\ ~is_mapping(ValueAt(m, SubSeq(path, 1, n)))

\* the nearest document of the lineage that defines the path
Nearest(docs, path) ==
    LET having == {i \in DOMAIN docs : Defines(docs[i].settings, path)}
    IN docs[CHOOSE i \in having : \A j \in having : i <= j]

\* C8: on an acyclic chain resolve succeeds, everything the resolved profile
\* itself sets is in the result, so is every path that no nearer document
\* cuts off with a scalar above it, and at every path of the result stands
\* the value of the nearest document of the chain that defines that path (a
\* mapping where that document has a mapping).
ThmNearestWins ==
    (pc = "done" /\ Rooted(store, requested)) =>
        /\ outcome.ok
        /\ LET docs == Lineage(store, requested)
               result == outcome.settings.mapping
           IN /\ \A path \in Paths :
                    Defines(docs[1].settings, path) => Defines(result, path)
              /\ \A path \in Paths : \A i \in DOMAIN docs :
                    (/\ Defines(docs[i].settings, path)
                     /\ \A j \in 1..(i - 1) : ~ScalarAbove(docs[j].settings, path))
                        => Defines(result, path)
              /\ \A path \in Paths :
                    Defines(result, path) =>
                       /\ \E i \in DOMAIN docs : Defines(docs[i].settings, path)
                       /\ LET near == ValueAt(Nearest(docs, path).settings, path)
                          IN IF is_mapping(near) THEN is_mapping(ValueAt(result, path))
                             ELSE ValueAt(result, path) = near

\* a chain of three: the parent's scalar differs from the grandparent's, the
\* resolved profile sets none, and the parent's is the result
WitNearestWins ==
    /\ pc = "done"
    /\ Rooted(store, requested)
    /\ Len(Lineage(store, requested)) = 3
    /\ \E path \in Paths :
          LET docs == Lineage(store, requested)
          IN /\ ~Defines(docs[1].settings, path)
             /\ Defines(docs[2].settings, path)
             /\ Defines(docs[3].settings, path)
             /\ ~is_mapping(ValueAt(docs[2].settings, path))
             /\ ValueAt(docs[2].settings, path) # ValueAt(docs[3].settings, path)
             /\ ValueAt(outcome.settings.mapping, path) = ValueAt(docs[2].settings, path)

ExampleA == [k \in {"x", "y"} |->
                IF k = "x" THEN Scalar(1) ELSE Mapping([j \in {"a"} |-> Scalar(1)])]
ExampleB == [k \in {"y"} |-> Mapping([j \in {"b"} |-> Scalar(2)])]
ExampleResolved ==
    [k \in {"x", "y"} |->
        IF k = "x" THEN Scalar(1)
        ELSE Mapping([j \in {"a", "b"} |-> IF j = "a" THEN Scalar(1) ELSE Scalar(2)])]

IsExample ==
    /\ {"A", "B"} \subseteq DOMAIN store
    /\ store["A"].extends = None /\ store["A"].settings = ExampleA
    /\ store["B"].extends = "A" /\ store["B"].settings = ExampleB
    /\ requested = "B"

\* C9: the paths of the resolved tree are the paths defined by some document
\* of the chain and not cut off by a scalar that a nearer document holds
\* above them; A = {x: 1, y: {a: 1}}, B extends A = {y: {b: 2}} resolve to
\* {x: 1, y: {a: 1, b: 2}}.
ThmNestedUnion ==
    (pc = "done" /\ Rooted(store, requested)) =>
        /\ outcome.ok
        /\ LET docs == Lineage(store, requested)
               result == outcome.settings.mapping
           IN {path \in Paths : Defines(result, path)} =
              {path \in Paths :
                  \E i \in DOMAIN docs :
                      /\ Defines(docs[i].settings, path)
                      /\ \A j \in 1..(i - 1) : ~ScalarAbove(docs[j].settings, path)}
        /\ IsExample => outcome.settings = Mapping(ExampleResolved)

\* B of the example has been resolved
WitNestedUnion ==
    /\ pc = "done"
    /\ IsExample
    /\ outcome = Resolved("B", ExampleResolved)

\* C10: the walk of resolve is bounded (every iteration ends it or puts one
\* more stored document on the chain), and on a cyclic chain it ends with
\* CycleDetected and no settings.
ThmCycleDetected ==
    [][ /\ (pc = "walk" /\ pc' = "walk") => Len(chain') = Len(chain) + 1
        /\ pc' = "walk" => Len(chain') <= Cardinality(DOMAIN store')
        /\ (pc' = "done" /\ Cyclic(store', requested')) =>
              outcome' = Failure(CycleDetected) ]_vars

\* a cycle through two documents or more has been detected
WitCycleDetected ==
    /\ pc = "done"
    /\ Cyclic(store, requested)
    /\ outcome = Failure(CycleDetected)
    /\ Len(chain) >= 2

-----------------------------------------------------------------------------
(* Properties of the source detectors *)

\* the games of a call that returned Ok
Emitted == {found.ok[i] : i \in DOMAIN found.ok}

\* the manifests a Steam scan finds: the appmanifest_*.acf files in the
\* steamapps directory of every library directory
LibraryDirs(w) == Range(read_library_folders(w.fs, w.config.steam).ok)
ManifestsFound(w) ==
    IF w.config.steam = None \/ ~exists(w.fs, w.config.steam) THEN {}
    ELSE {path \in DOMAIN w.fs :
            /\ \E library \in LibraryDirs(w) : parent(path) = library \o <<Steamapps>>
            /\ starts_with(file_name(path), ManifestPrefix)
            /\ ends_with(file_name(path), ManifestSuffix)}
\* a complete manifest carries appid, name and installdir
Complete(w, path) ==
    {"appid", "name", "installdir"}
        \subseteq {w.fs[path].content[i].key : i \in DOMAIN w.fs[path].content}
AppidOf(w, path) == last_value(w.fs[path].content, "appid")
Wanted(w) ==
    {path \in ManifestsFound(w) : Complete(w, path) /\ AppidOf(w, path) \notin EXCLUDED_APPIDS}

\* C11: a Steam scan that returns emits no game whose id is an excluded
\* AppID: of the manifests found in the library directories it drops those
\* with an excluded appid and emits every other complete one, once.
ThmSteamDropsExcluded ==
    (ran.call = Steam /\ is_ok(found)) =>
        /\ \A g \in Emitted : g.source = Steam /\ g.id \notin EXCLUDED_APPIDS
        /\ Len(found.ok) = Cardinality(Wanted(world))
        /\ {g.id : g \in Emitted} = {AppidOf(world, path) : path \in Wanted(world)}

\* a scan of two libraries, each with an excluded manifest and a game
WitSteamDropsExcluded ==
    /\ ran.call = Steam
    /\ is_ok(found)
    /\ Len(found.ok) = 2
    /\ \A library \in {SteamRoot, SecondLibrary} :
          /\ \E path \in ManifestsFound(world) \ Wanted(world) :
                /\ has_prefix(path, library)
                /\ Complete(world, path)
                /\ AppidOf(world, path) \in EXCLUDED_APPIDS
          /\ \E path \in Wanted(world) : has_prefix(path, library)

Detectors == {Steam, Heroic, Lutris}

\* equality of two optional values
Same(a, b) == IF a = None \/ b = None THEN a = None /\ b = None ELSE a = b

\* C12: every game any of the three detectors emits has no executable or
\* one that exists on disk when it is detected.
CexExecutableExists ==
    (ran.call \in Detectors /\ is_ok(found)) =>
        \A g \in Emitted : g.executable = None \/ exists(world.fs, g.executable)

\* the worlds in which Heroic reads one library file, that of the Gog
\* store, a JSON object whose entries all deserialize; and its entries
MainLibrary == HeroicRoot \o <<Store, Gog, LibraryJson>>
OtherLibrary == HeroicRoot \o <<Store, Legendary, LibraryJson>>
EntriesOf(json) ==
    IF "games" \in DOMAIN json THEN json.games
    ELSE IF "library" \in DOMAIN json THEN json.library
    ELSE <<>>
OneLibrary(w) ==
    /\ w.config.heroic # None
    /\ w.config.heroic = HeroicRoot
    /\ MainLibrary \in DOMAIN w.fs
    /\ OtherLibrary \notin DOMAIN w.fs
    /\ listable(w.fs, HeroicRoot \o <<Store>>)
    /\ w.fs[MainLibrary].readable
    /\ is_object(w.fs[MainLibrary].content)
    /\ all_well_typed(EntriesOf(w.fs[MainLibrary].content))
Entries(w) == EntriesOf(w.fs[MainLibrary].content)

\* the executable the specification gives an entry: the declared path when
\* it is there and exists, else the hint under the install directory when
\* there is one and it exists, else none
ClaimedExecutable(fs, entry) ==
    IF entry.executable # None /\ exists(fs, entry.executable) THEN entry.executable
    ELSE IF /\ entry.launch_options # None
            /\ entry.launch_options # <<>>
            /\ exists(fs, join(entry.install_path, entry.launch_options))
    THEN join(entry.install_path, entry.launch_options)
    ELSE None

\* C13: the executable of a Heroic game is the declared path if it is
\* present and exists; otherwise (absent, or not existing) the launch-options
\* hint resolved against the install directory; otherwise absent.
CexHeroicExecutable ==
    (ran.call = Heroic /\ is_ok(found) /\ OneLibrary(world)
        /\ Len(found.ok) = Len(Entries(world))) =>
        \A i \in DOMAIN found.ok :
            Same(found.ok[i].executable, ClaimedExecutable(world.fs, Entries(world)[i]))

\* the id the specification gives an entry: the first non-empty of
\* identifier, app_name and title, None when there is none
ClaimedId(entry) ==
    IF entry.identifier # <<>> THEN entry.identifier
    ELSE IF entry.app_name # None /\ entry.app_name # <<>> THEN entry.app_name
    ELSE IF entry.title # <<>> THEN entry.title
    ELSE None
Listed(entry) == entry.install_path # None /\ ClaimedId(entry) # None

\* C14: the id of a Heroic game is the first non-empty of identifier,
\* app_name and title, so never the empty string, and an entry with no
\* install path or with none of the three is skipped.
CexHeroicIdentity ==
    (ran.call = Heroic /\ is_ok(found) /\ OneLibrary(world)) =>
        /\ \A g \in Emitted : g.id # <<>>
        /\ LET listed == SelectSeq(Entries(world), Listed)
           IN [i \in DOMAIN found.ok |-> found.ok[i].id]
                = [i \in DOMAIN listed |-> ClaimedId(listed[i])]

\* the worlds in which pga.db is a database of the older schema whose rows
\* all have a slug, a name and a directory; and its rows
DbPath(w) == w.config.lutris \o <<PgaDb>>
Opened(w) ==
    /\ w.config.lutris # None
    /\ exists(w.fs, DbPath(w))
    /\ is_ok(connection_open(w.fs, DbPath(w)))
OlderDatabase(w) ==
    /\ Opened(w)
    /\ "garbage" \notin DOMAIN w.fs[DbPath(w)].content
    /\ w.fs[DbPath(w)].content.columns = OlderSchema
    /\ \A i \in DOMAIN w.fs[DbPath(w)].content.rows : row_ok(w.fs[DbPath(w)].content.rows[i])
TableRows(w) == w.fs[DbPath(w)].content.rows

\* C15: against a database of the older schema (a games table with an exe
\* column) Lutris detection succeeds, and the executable of a row that
\* declares a relative one is the install directory joined with it.
CexLutrisOlderSchema ==
    (ran.call = Lutris /\ ran.busy = {} /\ OlderDatabase(world)) =>
        /\ is_ok(found)
        /\ Len(found.ok) = Len(TableRows(world))
        /\ \A i \in DOMAIN TableRows(world) :
              (TableRows(world)[i].exe # None /\ ~is_absolute(TableRows(world)[i].exe)) =>
                  Same(found.ok[i].executable,
                       join(TableRows(world)[i].directory, TableRows(world)[i].exe))

\* C16: Lutris detect runs the newer-schema query first and the
\* older-schema query only when the newer one fails; it returns an error
\* only if both fail, and otherwise the games of the query that succeeded.
ThmLutrisNewerFirst ==
    (ran.call = Lutris /\ Opened(world)) =>
        LET connection == world.fs[DbPath(world)].content
            newer == query(connection, NewerQuery, "newer" \in ran.busy)
            older == query(connection, OlderQuery, "older" \in ran.busy)
        IN /\ ran.queries = IF is_ok(newer) THEN <<"newer">> ELSE <<"newer", "older">>
           /\ ~is_ok(found) <=> (~is_ok(newer) /\ ~is_ok(older))
           /\ is_ok(newer) =>
                found = Ok(lutris_games(world.fs, newer.ok, ran.include_fingerprint))
           /\ (~is_ok(newer) /\ is_ok(older)) =>
                found = Ok(lutris_games(world.fs, older.ok, ran.include_fingerprint))

\* the newer query fails, the older one runs and its games are returned
WitLutrisNewerFirst ==
    /\ ran.call = Lutris
    /\ Opened(world)
    /\ ran.queries = <<"newer", "older">>
    /\ is_ok(found)
    /\ \E g \in Emitted : g.executable # None

\* the library root of a detector, and whether it has anything to read
RootOf(w, call) ==
    IF call = Steam THEN w.config.steam
    ELSE IF call = Heroic THEN w.config.heroic
    ELSE w.config.lutris
NothingToDetect(w, call) ==
    \/ RootOf(w, call) = None
    \/ ~exists(w.fs, IF call = Lutris THEN RootOf(w, call) \o <<PgaDb>> ELSE RootOf(w, call))

\* a file or directory that exists and cannot be read or parsed
Unparsable(content) ==
    \/ "syntax_error" \in DOMAIN content
    \/ "games" \in DOMAIN content /\ ~all_well_typed(content.games)
    \/ "library" \in DOMAIN content /\ ~all_well_typed(content.library)
    \/ "garbage" \in DOMAIN content
    \/ /\ "columns" \in DOMAIN content
       /\ \/ ~(OlderSchema \subseteq content.columns) /\ ~(NewerSchema \subseteq content.columns)
          \/ \E i \in DOMAIN content.rows : ~row_ok(content.rows[i])
Troubled(w) ==
    \E path \in DOMAIN w.fs :
        \/ w.fs[path].kind = "dir" /\ ~listable(w.fs, path)
        \/ w.fs[path].kind = "file" /\ "len" \notin DOMAIN w.fs[path] /\ ~w.fs[path].readable
        \/ /\ w.fs[path].kind = "file"
           /\ "content" \in DOMAIN w.fs[path]
           /\ file_name(path) \in {LibraryJson, PgaDb}
           /\ Unparsable(w.fs[path].content)

\* C17: a detector returns the empty sequence and no error when its library
\* root is unset or does not exist (Lutris: when there is no pga.db under
\* it), and returns an error only for a file that exists and cannot be read
\* or parsed (a database that is busy counts as one that cannot be read).
CexEmptyWithoutRoot ==
    ran.call \in Detectors =>
        /\ NothingToDetect(world, ran.call) => (is_ok(found) /\ found.ok = <<>>)
        /\ ~is_ok(found) => (ran.busy # {} \/ Troubled(world))

\* the library files a Heroic scan finds
LibraryFiles(w) == {path \in {MainLibrary, OtherLibrary} : path \in DOMAIN w.fs}
Scanned(w) ==
    /\ w.config.heroic # None
    /\ w.config.heroic = HeroicRoot
    /\ exists(w.fs, HeroicRoot \o <<Store>>)
    /\ listable(w.fs, HeroicRoot \o <<Store>>)
\* an entry is malformed when it does not deserialize, has no install path,
\* or has none of identifier, app_name and title
Malformed(entry) == ~well_typed(entry) \/ ~Listed(entry)
\* an entry is returned when a game of its name and install directory is
Returned(entry) ==
    \E g \in Emitted :
        /\ g.install_dir = entry.install_path
        /\ g.name = IF entry.title # <<>> THEN entry.title ELSE ClaimedId(entry)

\* a file or directory a Steam scan reads cannot be read
SteamUnreadable(w) ==
    LET vdf == w.config.steam \o <<Steamapps, LibraryFoldersVdf>>
    IN IF vdf \in DOMAIN w.fs /\ ~w.fs[vdf].readable THEN TRUE
       ELSE \/ \E library \in LibraryDirs(w) :
                /\ exists(w.fs, library \o <<Steamapps>>)
                /\ ~listable(w.fs, library \o <<Steamapps>>)
            \/ \E path \in ManifestsFound(w) : ~w.fs[path].readable

\* C18: in the Steam and Heroic detectors one malformed manifest entry is
\* skipped and the other entries of the scan are still returned, whereas a
\* file that cannot be read makes the run fail.
CexMalformedEntrySkipped ==
    /\ (ran.call = Steam /\ ~NothingToDetect(world, Steam)
            /\ pattern_ok(to_string_lossy(world.config.steam), 1)) =>
          IF SteamUnreadable(world)
          THEN ~is_ok(found)
          ELSE is_ok(found) /\ Len(found.ok) = Cardinality(Wanted(world))
    /\ (ran.call = Heroic /\ Scanned(world)) =>
          IF \E path \in LibraryFiles(world) : ~world.fs[path].readable
          THEN ~is_ok(found)
          ELSE (\A path \in LibraryFiles(world) : is_object(world.fs[path].content)) =>
                  /\ is_ok(found)
                  /\ \A path \in LibraryFiles(world) :
                        LET array == EntriesOf(world.fs[path].content)
                        IN \A i \in DOMAIN array :
                              ~Malformed(array[i]) => Returned(array[i])

\* the call of the detector `call` on this world
Detect(w, call, include_fingerprint, busy) ==
    IF call = Steam THEN steam_detect(w, include_fingerprint)
    ELSE IF call = Heroic THEN heroic_detect(w, include_fingerprint)
    ELSE lutris_detect(w, include_fingerprint, busy)
\* fingerprint_file fails on this path
CannotBeRead(fs, path) == ~(is_file(fs, path) /\ fs[path].readable)
Unprinted(gs) == [i \in DOMAIN gs |-> [gs[i] EXCEPT !.fingerprint = None]]

\* C19: a fingerprint failure is never surfaced: with include_fingerprint a
\* detector fails only where it fails without, and emits the same games,
\* those whose executable cannot be opened or read with no fingerprint.
ThmFingerprintBestEffort ==
    (ran.call \in Detectors /\ ran.include_fingerprint) =>
        /\ \E plain \in Detect(world, ran.call, FALSE, ran.busy) :
              /\ is_ok(found) = is_ok(plain)
              /\ is_ok(found) => Unprinted(found.ok) = plain.ok
        /\ is_ok(found) =>
              \A g \in Emitted :
                  (g.executable # None /\ CannotBeRead(world.fs, g.executable)) =>
                      g.fingerprint = None

\* a game whose executable is there and cannot be read, emitted without a
\* fingerprint by a call that asked for fingerprints
WitFingerprintBestEffort ==
    /\ ran.call \in Detectors
    /\ ran.include_fingerprint
    /\ is_ok(found)
    /\ \E g \in Emitted :
          /\ g.executable # None
          /\ exists(world.fs, g.executable)
          /\ CannotBeRead(world.fs, g.executable)
          /\ g.fingerprint = None

\* the .exe files at most four levels below the install directory
ExeFiles(w) ==
    {path \in DOMAIN w.fs :
        /\ has_prefix(path, w.install_dir)
        /\ Len(path) - Len(w.install_dir) <= 4
        /\ w.fs[path].kind = "file"
        /\ Len(file_name(path)) > 4
        /\ to_lowercase(SubSeq(file_name(path), Len(file_name(path)) - 3,
                               Len(file_name(path)))) = <<".", "e", "x", "e">>}
\* the lowercased file name holds one of the non-game substrings
NonGame(path) ==
    \E i \in DOMAIN SKIP_PATTERNS : contains(to_lowercase(file_name(path)), SKIP_PATTERNS[i])

\* C20: the executable resolver never returns a file whose lowercased name
\* holds a non-game substring; in a directory Game that holds Game.exe and
\* GameSetup.exe it returns Game.exe; and it returns none exactly when every
\* .exe within depth 4 is discarded or there is none.
ThmResolverSkipsTools ==
    ran.call = "locate_primary_executable" =>
        /\ found # None => (found \in ExeFiles(world) /\ ~NonGame(found))
        /\ found = None <=> (\A path \in ExeFiles(world) : NonGame(path))
        /\ DOMAIN world.fs = {InstallDir, InstallDir \o <<GameExe>>, InstallDir \o <<GameSetupExe>>}
              => (found # None /\ found = InstallDir \o <<GameExe>>)

\* Game.exe and GameSetup.exe alone in the directory Game: Game.exe
WitResolverSkipsTools ==
    /\ ran.call = "locate_primary_executable"
    /\ DOMAIN world.fs = {InstallDir, InstallDir \o <<GameExe>>, InstallDir \o <<GameSetupExe>>}
    /\ found # None
    /\ found = InstallDir \o <<GameExe>>

-----------------------------------------------------------------------------
(* Properties of the executable resolver's ranking *)

\* the score of a candidate, term by term
NameMatch(path, install_dir) ==
    LET stem == to_lowercase(file_stem(file_name(path)))
        dir == to_lowercase(file_name(install_dir))
    IN contains(dir, stem) \/ contains(stem, replace_spaces(dir))
ShippingBinary(name) ==
    ends_with(name, <<"-", "w", "i", "n", "6", "4", "-", "s", "h", "i", "p", "p", "i", "n", "g", ".", "e", "x", "e">>) \/ ends_with(name, <<"_", "w", "i", "n", "6", "4", ".", "e", "x", "e">>)
ClaimedScore(fs, path, install_dir) ==
    LET name == to_lowercase(file_name(path))
        depth == Len(path) - Len(install_dir)
    IN    (IF NameMatch(path, install_dir) THEN 50 ELSE 0)
        + (IF depth <= 1 THEN 30 ELSE 0)
        + (IF depth = 2 /\ file_name(parent(path)) \in {<<"b", "i", "n">>, <<"B", "i", "n", "a", "r", "i", "e", "s">>, <<"x", "6", "4">>}
           THEN 25 ELSE 0)
        + (IF ShippingBinary(name) THEN 20 ELSE 0)
        + (IF contains(name, <<"g", "a", "m", "e">>) \/ contains(name, <<"c", "l", "i", "e", "n", "t">>) THEN 10 ELSE 0)
        - (IF contains(name, <<"s", "e", "r", "v", "e", "r">>) /\ ~contains(name, <<"d", "e", "d", "i", "c", "a", "t", "e", "d">>) THEN 10 ELSE 0)
        - (IF fs[path].len < 1000000 THEN 20 ELSE 0)
        + (IF fs[path].len > 50000000 THEN 15 ELSE 0)

\* the surviving candidates, in the order of the walk
Survivors ==
    LET kept == {path \in ExeFiles(world) : ~NonGame(path)}
    IN SelectSeq(order, LAMBDA path : path \in kept)

-----------------------------------------------------------------------------
(* Properties of re-detection and of the profile assignment *)

\* the games of a slice whose key no other game of the slice has
OnceIn(gs) ==
    {i \in 1..Len(gs) :
        \A j \in 1..Len(gs) : game_key(gs[j]) = game_key(gs[i]) => j = i}

\* C23: when a game that is already in the database is detected again,
\* merge_detected sets the record's install_dir and executable to the newly
\* detected values, an absent executable replacing a recorded one, and its
\* metadata to the union of the recorded and the new entries, the new value
\* taking a key that both hold.
ThmRedetectionRefreshes ==
    [][merges' # merges =>
        \A i \in OnceIn(arg') :
            LET game == arg'[i]
                key == game_key(game)
            IN key \in DOMAIN entries =>
                /\ entries'[key].install_dir = game.install_dir
                /\ Same(entries'[key].executable, game.executable)
                /\ DOMAIN entries'[key].metadata =
                       DOMAIN entries[key].metadata \cup DOMAIN game.metadata
                /\ \A k \in DOMAIN entries'[key].metadata :
                       entries'[key].metadata[k] =
                           IF k \in DOMAIN game.metadata THEN game.metadata[k]
                           ELSE entries[key].metadata[k]]_vars

\* a record made with an executable and detected again, moved and without one
WitRedetectionRefreshes ==
    /\ op = "merge_detected"
    /\ Len(arg) = 1
    /\ arg[1].name = "renamed"
    /\ LET key == game_key(arg[1])
       IN /\ key \in DOMAIN entries
          /\ entries[key].name = "name"
          /\ entries[key].install_dir = "moved"
          /\ entries[key].executable = None
          /\ entries[key].metadata = Meta("k", "v2") @@ Meta("j", "w")


\* the keys of the games of a slice
KeysOf(gs) == {game_key(gs[i]) : i \in 1..Len(gs)}

\* C27: merge_detected changes only the records whose key is the key of one
\* of the games; of a record that is detected again it leaves the name, the
\* source and the profile as they were, so that an assigned profile survives
\* any number of merges.
ThmMergeFrame ==
    [][merges' # merges =>
        /\ DOMAIN entries' = DOMAIN entries \cup KeysOf(arg')
        /\ \A key \in DOMAIN entries :
              IF key \in KeysOf(arg')
              THEN /\ entries'[key].name = entries[key].name
                   /\ entries'[key].source = entries[key].source
                   /\ Same(entries'[key].profile, entries[key].profile)
              ELSE entries'[key] = entries[key]]_vars

\* a record with a profile that was detected again under another name, next
\* to a record of the other source that the merge did not name
WitMergeFrame ==
    /\ op = "merge_detected"
    /\ Len(arg) = 1
    /\ arg[1].name = "renamed"
    /\ merges = MaxMerges
    /\ Cardinality(DOMAIN entries) = 2
    /\ LET key == game_key(arg[1])
       IN /\ entries[key].name = "name"
          /\ entries[key].install_dir = "moved"
          /\ entries[key].profile = "A"
          /\ \E other \in DOMAIN entries \ {key} : entries[other].last_seen < merges


\* C28: once set_game_profile(game_id, p) has found a record that matches
\* game_id, a following get_game_profile(game_id) returns p, also when the
\* records of two sources share the bare id and also when the database was
\* saved and loaded in between.
CexProfileReadBack ==
    (op = "get_game_profile" /\ history.matched /\ arg = history.game_id)
        => ret = history.profile

-----------------------------------------------------------------------------
(* Properties of two processes sharing the database document *)

\* C22: when a process saves, the persisted document is its in-memory
\* database, which is its command applied to what it had loaded, whatever
\* another process has written since that load; the save reports no error.
ThmLastWriterWins ==
    \A p \in Processes :
        (op = "save" /\ arg = p) =>
            /\ from_yaml(disk) = procs[p].db
            /\ mutated(load_or_default(procs[p].loaded).ok, procs[p].keys,
                       store, procs[p].command) = Ok(procs[p].db)
            /\ procs[p].at = "done"
            /\ procs[p].result = None

\* process 2 assigned a profile after process 1 had loaded and before it
\* saved; after the save of process 1 the assignment is not in the document
WitLastWriterWins ==
    /\ op = "save"
    /\ arg = 1
    /\ procs[1].command.handler = "maybe_update_database"
    /\ procs[2].command.handler = "handle_set_profile"
    /\ procs[2].at = "done"
    /\ procs[2].result = None
    /\ procs[2].loaded = procs[1].loaded
    /\ \E key \in DOMAIN procs[2].db :
          /\ procs[2].db[key].profile = "A"
          /\ from_yaml(disk)[key].profile = None

-----------------------------------------------------------------------------
(* Properties of the ids that the database hands out *)

\* the source-local id a record was created from: its key without the
\* "{source}:" prefix that game_key put before it
LocalId(e, key) ==
    SubSeq(key, Len(Display(e[key].source)) + 2, Len(key))

\* C29: every game yielded by games() and every game returned by get carries
\* the source-local id of the detection its record was created from, also
\* when the id contains ':' and when get is called with the full key.
CexSourceLocalId ==
    /\ op = "games" => \A key \in DOMAIN ret : ret[key].id = LocalId(entries, key)
    /\ (op = "get" /\ ret # Nothing) =>
          \E key \in DOMAIN entries :
              /\ key_matches(key, arg)
              /\ ret[1] = record_to_detected(LocalId(entries, key), entries[key])

-----------------------------------------------------------------------------
(* Properties of games scan *)

\* C26: after a successful handle_scan the persisted database holds no Steam
\* record whose id is an excluded AppID, whatever it held before the scan.
ThmScanLeavesNoInternal ==
    (op = "handle_scan" /\ is_ok(ret)) =>
        \A key \in DOMAIN from_yaml(disk) :
            ~(/\ from_yaml(disk)[key].source = Steam
              /\ is_excluded_appid(LocalId(from_yaml(disk), key)))

\* a scan that loaded a database with the Steam record of an excluded AppID,
\* read the manifest of that AppID and of a game, and saved the game only
WitScanLeavesNoInternal ==
    /\ op = "handle_scan"
    /\ is_ok(ret)
    /\ ret.ok > 0
    /\ \E key \in DOMAIN arg :
          /\ arg[key].source = Steam
          /\ is_excluded_appid(LocalId(arg, key))
          /\ key \notin DOMAIN from_yaml(disk)
    /\ \E path \in DOMAIN world.fs :
          world.fs[path] = Manifest(<<"2", "2", "8", "9", "8", "0">>, <<"R", "e", "d", "i", "s", "t">>)
    /\ \E key \in DOMAIN from_yaml(disk) : from_yaml(disk)[key].source = Steam

-----------------------------------------------------------------------------
(* Properties of the profile commands *)

\* C24: after any sequence of profile create, set and import on a profiles
\* directory that was empty, the name of every stored document is the file
\* stem it is stored under, and after a command that succeeded the document
\* stored for its name is the whole document that the command built.
CexNameIsStorageKey ==
    /\ \A stem \in DOMAIN store : store[stem].name = stem
    /\ is_ok(cmd.result) =>
          /\ cmd.result.ok.name \in DOMAIN store
          /\ store[cmd.result.ok.name] = cmd.result.ok


\* the value that the keys of `path` lead to in a mapping, if there is one
NoValue == [absent |-> TRUE]
RECURSIVE Lookup(_, _)
Lookup(mapping, path) ==
    IF Head(path) \notin DOMAIN mapping THEN NoValue
    ELSE IF Len(path) = 1 THEN mapping[Head(path)]
    ELSE IF is_mapping(mapping[Head(path)])
    THEN Lookup(mapping[Head(path)].mapping, Tail(path))
    ELSE NoValue

IsPrefix(p, q) == Len(p) <= Len(q) /\ SubSeq(q, 1, Len(p)) = p
Segments == {<<"a">>, <<"b">>, <<"c">>}
DottedPaths == UNION {[1..n -> Segments] : n \in 1..3}

\* a segment before the last leads to a value that is not a mapping
Conflict(mapping, parts) ==
    \E i \in 1..(Len(parts) - 1) :
        /\ Lookup(mapping, SubSeq(parts, 1, i)) # NoValue
        /\ ~is_mapping(Lookup(mapping, SubSeq(parts, 1, i)))

\* C30: profile set with one dotted key = v yields settings in which the path
\* of the key holds v, with mappings at the segments before the last and
\* every other key, siblings included, as before; when a segment before the
\* last holds a value that is not a mapping, the command fails and the
\* stored documents are as they were.
ThmDottedKey ==
    (cmd.command = "set" /\ Len(cmd.values) = 1 /\ profile_exists(cmd.before, cmd.name)) =>
        LET before == manager_load(cmd.before, cmd.name).ok
            parts == split(cmd.values[1][1], ".")
        IN IF Conflict(before.settings, parts)
           THEN ~is_ok(cmd.result) /\ store = cmd.before
           ELSE /\ is_ok(cmd.result)
                /\ Lookup(cmd.result.ok.settings, parts) = Scalar(cmd.values[1][2])
                /\ \A i \in 1..(Len(parts) - 1) :
                      is_mapping(Lookup(cmd.result.ok.settings, SubSeq(parts, 1, i)))
                /\ \A q \in DottedPaths :
                      ~(IsPrefix(q, parts) \/ IsPrefix(parts, q)) =>
                          Lookup(cmd.result.ok.settings, q) = Lookup(before.settings, q)
                /\ store[path_for(cmd.name)] = cmd.result.ok

\* a.b.c is set where a holds the sibling c and no b: the mapping b is made
\* and the sibling is kept
WitDottedKey ==
    /\ cmd.command = "set"
    /\ cmd.values = << <<<<"a", ".", "b", ".", "c">>, "1">> >>
    /\ profile_exists(cmd.before, cmd.name)
    /\ Lookup(cmd.before[path_for(cmd.name)].settings, << <<"a">>, <<"c">> >>) = Scalar("1")
    /\ Lookup(cmd.before[path_for(cmd.name)].settings, << <<"a">>, <<"b">> >>) = NoValue
    /\ is_ok(cmd.result)
    /\ Lookup(store[path_for(cmd.name)].settings, << <<"a">>, <<"c">> >>) = Scalar("1")
    /\ Lookup(store[path_for(cmd.name)].settings, << <<"a">>, <<"b">>, <<"c">> >>) = Scalar("1")

-----------------------------------------------------------------------------
(* Properties of resolve on files that cannot be loaded *)

\* the walk from `name` through the extends of the documents it can load
\* comes to a name that cannot be loaded before it comes to a name again
RECURSIVE Unloadable(_, _, _)
Unloadable(files, name, passed) ==
    IF name \in passed THEN FALSE
    ELSE IF ~loadable(files, name) THEN TRUE
    ELSE IF files[name].extends = None THEN FALSE
    ELSE Unloadable(files, files[name].extends, passed \cup {name})

\* C25: resolve(name) fails with the error of load, a file that is not there
\* or does not parse, whenever name or an ancestor reached through extends
\* cannot be loaded; it returns no settings merged from the rest.
ThmResolveLoadError ==
    (pc = "done" /\ Unloadable(store, requested, {})) => outcome = Failure(LoadError)

\* a profile and its parent are loaded, each with a setting, and the parent
\* extends a file that does not parse
WitResolveLoadError ==
    /\ pc = "done"
    /\ Len(chain) = 2
    /\ chain[1][2].settings # EmptyMapping
    /\ chain[2][2].settings # EmptyMapping
    /\ cursor \in DOMAIN store
    /\ store[cursor] = NotADocument
    /\ outcome = Failure(LoadError)

====
